---- MODULE Spec2Model ----
(***************************************************************************)
(* A model of the strawberry type-resolution / schema-conversion core:     *)
(*   - the resolver invocation adapter (schema_converter.from_resolver,     *)
(*     StrawberryField.get_result, the current_info context variable),      *)
(*   - the schema converter's type_map (from_scalar, from_enum, ...),       *)
(*   - StrawberryAnnotation.resolve,                                        *)
(*   - StrawberryField.type on forward references.                          *)
(* Each subsystem has its own specification over the shared variables.     *)
(***************************************************************************)
EXTENDS Integers, Sequences, FiniteSets, TLC

VARIABLES
    current_info,   \* types/info.py: the ContextVar current_info of the running context
    stack,          \* the get_result / resolver activations in progress, innermost last
    frame,          \* the wrapper invocation that started last, with what it did so far
    type_map,       \* GraphQLCoreConverter.type_map: emitted name -> ConcreteType
    pending,        \* the type nodes whose deferred field list was not forced yet
    built,          \* per definition, how many schema nodes were built from it
    convErr,        \* the exception that ended the last conversion step ("none" if none)
    conflict,       \* whether the last step met a name registered for another definition
    convStep,       \* the last conversion step: "none", "request" or "force"
    backRef,        \* the last forced field list named a type that was already registered
    convErrField,   \* the field the last UnresolvedFieldTypeError names (0 when none)
    firstUnresolved,    \* the first field of the last forced list whose type was UNRESOLVED
    decl,           \* what was declared: "idle", "annotation" or "field"
    type_annotation,    \* the StrawberryAnnotation (or raw value) under evaluation
    base_resolver_type, \* the field's base_resolver and what its type evaluates to
    namespace,      \* the namespace the annotation captured: the binding of the name T
    read,           \* the value the last read of field.type returned
    readNs,         \* the namespace at the last read of field.type
    sawUnresolved,  \* some read of field.type returned UNRESOLVED
    resolved,       \* the result of the last annotation.resolve()
    again,          \* the result of resolving an annotation that wraps that result
    fn,             \* the function of the library applied last ("none" before the first)
    fnArgs,         \* what it was applied to
    fnResult        \* what it returned, or the error it raised

invokeVars == <<current_info, stack, frame>>

convVars == <<type_map, pending, built, convErr, conflict, convStep, backRef,
              convErrField, firstUnresolved>>

annVars == <<decl, type_annotation, base_resolver_type, namespace, read, readNs,
             sawUnresolved, resolved, again>>

fnVars == <<fn, fnArgs, fnResult>>

vars == <<invokeVars, convVars, annVars, fnVars>>

(***************************************************************************)
(* Bounds                                                                   *)
(***************************************************************************)
MaxPerms == 2       \* permission classes per field
MaxDepth == 2       \* resolver activations nested in each other
MaxNestedPerms == 1 \* permission classes per field where invocations nest
MaxRefs == 1        \* named types one definition refers to (interfaces, members, field types)
MaxNest == 2        \* nesting depth of the annotations
MaxMembers == 3     \* members of a union annotation
MaxFields == 2      \* fields of a type whose types may be unresolved or private
MaxEnumValues == 2  \* members of an enum
MaxWrap == 3        \* wrappers (Optional, List, metadata) around a resolved type
MaxItems == 1       \* items of a list value in a request
MaxMeta == 3        \* metadata values of an argument annotation
MaxClassFields == 2 \* entries of a declared class
MaxArguments == 2   \* arguments of a resolver
MaxCalls == 2       \* calls of one wrapper
MaxClasses == 4     \* classes declared one after the other
MaxBases == 2       \* base classes of a class
MaxSources == 2     \* flags of a description-source setting
MaxTasks == 2       \* field invocations in flight at once

(***************************************************************************)
(* Fields, permissions, request inputs                                      *)
(***************************************************************************)
\* How a permission class defines has_permission:
\*   "sync"     a plain function returning a bool
\*   "deferred" a plain function returning an awaitable bool
\*   "coro"     a coroutine function (async def)
PermKinds == {"sync", "deferred", "coro"}

ResolverKinds == {"none", "sync", "async"}

FieldNames == {"a", "b"}

Sources == {"s1", "s2"}

ArgNames == {"x"}

SeqsUpTo(S, n) == UNION {[1..k -> S] : k \in 0..n}

\* A StrawberryField as the adapter sees it: python_name, base_resolver,
\* permission_classes.
Fields ==
    [python_name : FieldNames, resolver : ResolverKinds, perms : SeqsUpTo(PermKinds, MaxPerms)]

\* Values of the context variable: never set, None, or an Info object.
UnsetInfo == <<"unset", 0>>
NoneInfo == <<"None", 0>>
MkInfo(n) == <<"Info", n>>

\* ContextVar.set: the new value, and the token remembering the old one.
InfoSet(cur, info) == [value |-> info, token |-> cur]

InfoResetKeeps(cur, token) == cur

InfoResetToNone(cur, token) == IF token = UnsetInfo THEN NoneInfo ELSE token

\* ContextVar.reset(token): the value (or the never-set state) held before set.
InfoReset(cur, token) == token

\* get_info(): LookupError while the variable was never set.
GetInfo(cur) == IF cur = UnsetInfo THEN <<"LookupError", 0>> ELSE cur

\* get_context(): current_info.get() as in get_info(), then None for a None
\* value and info.context for an Info.
GetContext(cur) ==
    IF cur = UnsetInfo THEN <<"LookupError", 0>>
    ELSE IF cur = NoneInfo THEN <<"None", 0>>
    ELSE <<"context", cur[2]>>

HasAsyncPermissionClassesNever(f) == FALSE

HasAsyncPermissionClasses(f) == \E i \in DOMAIN f.perms : f.perms[i] = "coro"

HasAsyncBaseResolver(f) == f.resolver = "async"

IsAsync(f) == HasAsyncPermissionClasses(f) \/ HasAsyncBaseResolver(f)

IsBasicFieldNever(f) == FALSE

IsBasicField(f) == f.resolver = "none" /\ f.perms = <<>>

\* Which of the three closures from_resolver returns.
FromResolver(f) ==
    IF IsBasicField(f) THEN "basic"
    ELSE IF IsAsync(f) THEN "async"
    ELSE "sync"

\* What has_permission of a permission of kind k hands back when its verdict is g.
HasPermission(k, g) == [deferred |-> k # "sync", value |-> g]

\* Python truth value of a has_permission result: an awaitable object is true.
Truthy(r) == IF r.deferred THEN TRUE ELSE r.value

GrantedSyncAlways(r) == TRUE

\* _check_permissions: `if not permission.has_permission(...)`.
GrantedSync(r) == Truthy(r)

\* _check_permissions_async: `await await_maybe(...)`, awaiting only awaitables.
GrantedAsync(r) == r.value

DefaultResolver(source, name) == <<"getattr", source, name>>

ResolverResult(f) == <<"resolver", f.python_name, f.python_name>>

Message(i) == <<"message", i>>

NoError == <<"none", 0>>

\* The fields invoked where wrapper invocations nest in each other.
NestFields == {f \in Fields : Len(f.perms) <= MaxNestedPerms}

(***************************************************************************)
(* Resolver invocation adapter                                              *)
(***************************************************************************)
\* `frame` records the wrapper invocation that started last.  Its pc:
\*   "idle"  no wrapper was invoked yet
\*   "perm"  _check_permissions(_async) is at permission number permIdx
\*   "bind"  the permission checks passed; _get_result is next
\*   "body"  inside StrawberryField.get_result: the synchronous resolver (or the
\*           default getter) executes between current_info.set and reset
\*   "await" _async_resolver awaits the coroutine an asynchronous resolver returned
\*   "done"  the wrapper returned or raised
\* `stack` holds one entry per activation that reached its resolver: what the
\* Python frame of get_result keeps (info, the token old_info) and whether the
\* resolver runs inside get_result ("body") or as an awaited coroutine ("await").
NewFrame(f, src, req, depth) ==
    [ field |-> f, wrapper |-> FromResolver(f), source |-> src, request |-> req,
      pc |-> "bind", permIdx |-> 1,
      info |-> NoneInfo, passedInfo |-> NoneInfo, passedKwargs |-> {},
      before |-> UnsetInfo, after |-> UnsetInfo,
      infoBuilt |-> FALSE, converted |-> FALSE, permChecks |-> 0,
      inGetResult |-> FALSE, resolverCalled |-> FALSE, getterCalled |-> FALSE,
      suspensions |-> 0, falseAt |-> 0, deferredFalseAt |-> 0,
      outcome |-> "running", error |-> NoError, result |-> <<"none", "none", "none">> ]

IdleFrame == [NewFrame([python_name |-> "a", resolver |-> "none", perms |-> <<>>],
                       "s1", {}, 0) EXCEPT !.pc = "idle"]

Top == stack[Len(stack)]

Pop == SubSeq(stack, 1, Len(stack) - 1)

\* Code that may call a field's wrapper: the execution engine (no activation),
\* or the resolver / getter of the innermost activation while it executes.  Only
\* the engine and asynchronous code await an asynchronous wrapper.
CanCall(f) ==
    /\ frame.pc \notin {"perm", "bind"}
    /\ Len(stack) < MaxDepth
    /\ IF stack = <<>> THEN TRUE
       ELSE IF Top.pc = "await" THEN TRUE
       ELSE FromResolver(f) # "async"

\* field.get_result(source, info, args, kwargs) up to the call of a synchronous
\* resolver or of the default getter: old_info = current_info.set(info), then
\* the call.
EnterGetResult(fr, info, kwargs) ==
    LET s == InfoSet(current_info, info) IN
    /\ current_info' = s.value
    /\ stack' = Append(stack, [pc |-> "body", info |-> info, token |-> s.token])
    /\ frame' = [fr EXCEPT !.pc = "body", !.before = current_info,
                           !.inGetResult = TRUE,
                           !.passedInfo = info, !.passedKwargs = kwargs,
                           !.resolverCalled = (fr.field.resolver # "none"),
                           !.getterCalled = (fr.field.resolver = "none")]

\* _get_basic_result(_source, *args, **kwargs): get_result with info=None and no
\* arguments, whatever the engine passed.
CallBasic(f, src, req) ==
    /\ UNCHANGED <<convVars, annVars, fnVars>>
    /\ CanCall(f)
    /\ FromResolver(f) = "basic"
    /\ EnterGetResult(NewFrame(f, src, req, Len(stack) + 1), NoneInfo, {})

\* _resolver / _async_resolver: _strawberry_info_from_graphql builds the Info,
\* then the permission checks start.
CallWrapper(f, src, req) ==
    /\ UNCHANGED <<convVars, annVars, fnVars>>
    /\ CanCall(f)
    /\ FromResolver(f) # "basic"
    /\ frame' = [NewFrame(f, src, req, Len(stack) + 1) EXCEPT
                    !.infoBuilt = TRUE, !.info = MkInfo(Len(stack) + 1),
                    !.pc = IF f.perms = <<>> THEN "bind" ELSE "perm"]
    /\ UNCHANGED <<current_info, stack>>

\* One iteration of the loop of _check_permissions / _check_permissions_async.
CheckPermission(g) ==
    /\ UNCHANGED <<convVars, annVars, fnVars>>
    /\ frame.pc = "perm"
    /\ LET i == frame.permIdx
           r == HasPermission(frame.field.perms[i], g)
           granted == IF frame.wrapper = "async" THEN GrantedAsync(r) ELSE GrantedSync(r)
           seen == [frame EXCEPT
                      !.permChecks = @ + 1,
                      !.suspensions =
                          IF frame.wrapper = "async" /\ r.deferred THEN @ + 1 ELSE @,
                      !.falseAt =
                          IF @ = 0 /\ ~r.deferred /\ ~r.value THEN i ELSE @,
                      !.deferredFalseAt =
                          IF @ = 0 /\ r.deferred /\ ~r.value THEN i ELSE @]
       IN frame' = IF granted
                   THEN [seen EXCEPT
                           !.permIdx = i + 1,
                           !.pc = IF i = Len(frame.field.perms) THEN "bind" ELSE "perm"]
                   ELSE [seen EXCEPT !.pc = "done", !.outcome = "PermissionError",
                                     !.error = Message(i)]
    /\ UNCHANGED <<current_info, stack>>

\* _get_result: _get_arguments (convert_arguments), then field.get_result.  With
\* an asynchronous resolver the call only creates the coroutine: get_result sets
\* and resets current_info in one go, and _async_resolver goes on to await it.
GetResult ==
    /\ UNCHANGED <<convVars, annVars, fnVars>>
    /\ frame.pc = "bind"
    /\ LET fr == [frame EXCEPT !.converted = TRUE] IN
       IF fr.field.resolver = "async"
       THEN LET s == InfoSet(current_info, fr.info)
                cur == InfoReset(s.value, s.token)
                called == [fr EXCEPT !.before = current_info, !.after = cur,
                                     !.inGetResult = TRUE, !.resolverCalled = TRUE,
                                     !.passedInfo = fr.info,
                                     !.passedKwargs = fr.request]
            IN /\ current_info' = cur
               /\ IF fr.wrapper = "async"
                  THEN /\ frame' = [called EXCEPT !.pc = "await", !.suspensions = @ + 1]
                       /\ stack' = Append(stack, [pc |-> "await", info |-> fr.info,
                                                  token |-> s.token])
                  ELSE /\ frame' = [called EXCEPT !.pc = "done", !.outcome = "returned",
                                         !.result = <<"coroutine", "none", "none">>]
                       /\ UNCHANGED stack
       ELSE EnterGetResult(fr, fr.info, fr.request)

\* What the wrapper hands back when its resolver / getter returned.
Returned(fr, cur) ==
    [fr EXCEPT !.pc = "done", !.outcome = "returned", !.after = cur,
               !.result = IF fr.field.resolver = "none"
                          THEN DefaultResolver(fr.source, fr.field.python_name)
                          ELSE ResolverResult(fr.field)]

Raised(fr, cur) ==
    [fr EXCEPT !.pc = "done", !.outcome = "raised", !.after = cur,
               !.error = <<"exception", 0>>]

\* The synchronous resolver / default getter of the innermost activation
\* returns: `finally` resets current_info, and the wrapper returns the value.
ReturnBody ==
    /\ UNCHANGED <<convVars, annVars, fnVars>>
    /\ stack # <<>>
    /\ Top.pc = "body"
    /\ LET cur == InfoReset(current_info, Top.token) IN
       /\ current_info' = cur
       /\ frame' = IF frame.pc = "body" THEN Returned(frame, cur) ELSE frame
    /\ stack' = Pop

\* The synchronous resolver / default getter of the innermost activation
\* raises: `finally` resets current_info, and the exception leaves the wrapper.
RaiseBody ==
    /\ UNCHANGED <<convVars, annVars, fnVars>>
    /\ stack # <<>>
    /\ Top.pc = "body"
    /\ LET cur == InfoReset(current_info, Top.token) IN
       /\ current_info' = cur
       /\ frame' = IF frame.pc = "body" THEN Raised(frame, cur) ELSE frame
    /\ stack' = Pop

\* The awaited coroutine of the innermost activation finishes or raises.
FinishAwait(raises) ==
    /\ UNCHANGED <<convVars, annVars, fnVars>>
    /\ stack # <<>>
    /\ Top.pc = "await"
    /\ frame' = IF frame.pc # "await" THEN frame
                ELSE IF raises THEN Raised(frame, frame.after)
                ELSE Returned(frame, frame.after)
    /\ stack' = Pop
    /\ UNCHANGED current_info

(***************************************************************************)
(* Schema converter: the type_map                                           *)
(***************************************************************************)
TypeNames == {"A", "B"}

Kinds == {"scalar", "enum", "object", "input", "interface", "union"}

\* The source definitions (ScalarDefinition, EnumDefinition, TypeDefinition,
\* StrawberryUnion).  Two definitions may carry the same emitted name; with the
\* same kind and name they differ in `ver`.
Defs == {d \in [kind : Kinds, name : TypeNames, ver : {1, 2}] :
            d.ver = 2 => d.name = "A"}

NoDef == [kind |-> "none", name |-> "none", ver |-> 0]

\* A schema node: the GraphQL class it is an instance of, and the definition it
\* was built from.
Node(d, gk) == [of |-> d, gkind |-> gk]

NoEntry == [definition |-> NoDef, implementation |-> Node(NoDef, "none")]

\* ConcreteType(definition=..., implementation=...)
ConcreteType(d, n) == [definition |-> d, implementation |-> n]

\* Kinds whose schema node takes its field list as a thunk (fields=lambda: ...).
HasThunk(gk) == gk \in {"object", "input", "interface"}

\* The named types a definition can name eagerly: the interfaces of an object or
\* interface type (its base classes, so never the type itself), the member
\* types of a union.
DepCandidates(d) ==
    IF d.kind \in {"object", "interface"} THEN {x \in Defs : x.kind = "interface" /\ x # d}
    ELSE IF d.kind = "union" THEN {x \in Defs : x.kind \in {"object", "input"}}
    ELSE {}

\* The named types the fields of a type can have.
RefCandidates(gk) ==
    IF gk = "input" THEN {x \in Defs : x.kind \in {"scalar", "enum", "input"}}
    ELSE {x \in Defs : x.kind # "input"}

\* The converter while it runs one conversion: type_map, the nodes with an
\* unforced thunk, the build counts, the exception raised (if any), the
\* conflict met and the node returned last.
ConvState ==
    [tm |-> type_map, pending |-> pending, built |-> built,
     err |-> "none", conflict |-> "none", ret |-> Node(NoDef, "none"), errField |-> 0]

InTypeMapNever(tm, name) == FALSE

\* `name in self.type_map`
InTypeMap(tm, name) == tm[name] # NoEntry

\* "Don't reevaluate known types": the node registered under the name, with the
\* `assert isinstance(...)` on its class.  The registered definition is not
\* compared with the requested one.
Cached(cs, d, gk) ==
    LET e == cs.tm[d.name] IN
    IF e.implementation.gkind # gk
    THEN [cs EXCEPT !.err = "AssertionError",
                    !.conflict = IF @ = "silent" THEN @ ELSE "error"]
    ELSE [cs EXCEPT !.ret = e.implementation,
                    !.conflict = IF e.definition # d THEN "silent" ELSE @]

\* self.type_map[name] = ConcreteType(definition=..., implementation=node)
Register(cs, d, gk) ==
    LET n == Node(d, gk) IN
    [cs EXCEPT !.tm[d.name] = ConcreteType(d, n),
               !.built[d] = @ + 1,
               !.pending = IF HasThunk(gk) THEN @ \cup {n} ELSE @,
               !.ret = n]

\* from_scalar: the only conversion that compares the registered definition.
FromScalar(cs, d) ==
    IF ~InTypeMap(cs.tm, d.name) THEN Register(cs, d, "scalar")
    ELSE IF cs.tm[d.name].definition # d
         THEN [cs EXCEPT !.err = "ScalarAlreadyRegisteredError",
                         !.conflict = IF @ = "silent" THEN @ ELSE "error"]
         ELSE [cs EXCEPT !.ret = cs.tm[d.name].implementation]

FromEnum(cs, d) ==
    IF InTypeMap(cs.tm, d.name) THEN Cached(cs, d, "enum")
    ELSE Register(cs, d, "enum")

FromInputObject(cs, d) ==
    IF InTypeMap(cs.tm, d.name) THEN Cached(cs, d, "input")
    ELSE Register(cs, d, "input")

RECURSIVE FromInterfaces(_, _, _)
RECURSIVE FromInterface(_, _, _)
RECURSIVE FromMembers(_, _, _)
RECURSIVE FromType(_, _, _)

\* interfaces=list(map(self.from_interface, ....interfaces)), from position i on.
FromInterfaces(cs, deps, i) ==
    IF i > Len(deps) \/ cs.err # "none" THEN cs
    ELSE FromInterfaces(FromInterface(cs, deps[i], <<>>), deps, i + 1)

FromInterface(cs, d, deps) ==
    IF InTypeMap(cs.tm, d.name) THEN Cached(cs, d, "interface")
    ELSE LET cs1 == FromInterfaces(cs, deps, 1) IN
         IF cs1.err # "none" THEN cs1 ELSE Register(cs1, d, "interface")

FromObject(cs, d, deps) ==
    IF InTypeMap(cs.tm, d.name) THEN Cached(cs, d, "object")
    ELSE LET cs1 == FromInterfaces(cs, deps, 1) IN
         IF cs1.err # "none" THEN cs1 ELSE Register(cs1, d, "object")

\* The loop of from_union over union.types, from position i on.
FromMembers(cs, deps, i) ==
    IF i > Len(deps) \/ cs.err # "none" THEN cs
    ELSE LET cs1 == FromType(cs, deps[i], <<>>) IN
         IF cs1.err # "none" THEN cs1
         ELSE IF cs1.ret.gkind = "input"
              THEN [cs1 EXCEPT !.err = "InvalidTypeInputForUnion"]
         ELSE IF cs1.ret.gkind # "object"
              THEN [cs1 EXCEPT !.err = "AssertionError"]
         ELSE FromMembers(cs1, deps, i + 1)

FromUnion(cs, d, deps) ==
    IF InTypeMap(cs.tm, d.name) THEN Cached(cs, d, "union")
    ELSE LET cs1 == FromMembers(cs, deps, 1) IN
         IF cs1.err # "none" THEN cs1 ELSE Register(cs1, d, "union")

\* from_type: dispatch on the kind of the definition.  `deps` are the
\* interfaces / member types the definition declares.
FromType(cs, d, deps) ==
    IF d.kind = "enum" THEN FromEnum(cs, d)
    ELSE IF d.kind = "input" THEN FromInputObject(cs, d)
    ELSE IF d.kind = "interface" THEN FromInterface(cs, d, deps)
    ELSE IF d.kind = "object" THEN FromObject(cs, d, deps)
    ELSE IF d.kind = "union" THEN FromUnion(cs, d, deps)
    ELSE FromScalar(cs, d)

\* What f.type is for a field whose forward reference does not resolve, and
\* for a field annotated strawberry.Private.
UnresolvedType == [kind |-> "UNRESOLVED", name |-> "none", ver |-> 0]

PrivateType == [kind |-> "private", name |-> "none", ver |-> 0]

\* is_private(f.type)
IsPrivate(t) == t = PrivateType

RaiseUnresolvedNot(cs, i) == cs

\* raise UnresolvedFieldTypeError(f.name); the field is named by its position.
RaiseUnresolved(cs, i) == [cs EXCEPT !.err = "UnresolvedFieldTypeError", !.errField = i]

RECURSIVE GetThunkMapping(_, _, _)

\* _get_thunk_mapping over the values of f.type of the fields, from field i on:
\* an UNRESOLVED type raises, a private field is left out, every other field
\* goes through from_field / from_input_field, which converts the field's
\* type with from_maybe_optional -> from_type.
GetThunkMapping(cs, refs, i) ==
    IF i > Len(refs) \/ cs.err # "none" THEN cs
    ELSE IF refs[i] = UnresolvedType THEN RaiseUnresolved(cs, i)
    ELSE IF IsPrivate(refs[i]) THEN GetThunkMapping(cs, refs, i + 1)
    ELSE GetThunkMapping(FromType(cs, refs[i], <<>>), refs, i + 1)

\* The position of the first field whose type is UNRESOLVED, 0 when there is none.
FirstUnresolved(refs) ==
    IF \E i \in DOMAIN refs : refs[i] = UnresolvedType
    THEN CHOOSE i \in DOMAIN refs :
            /\ refs[i] = UnresolvedType
            /\ \A j \in 1..(i - 1) : refs[j] # UnresolvedType
    ELSE 0

ConvIdle ==
    /\ type_map = [n \in TypeNames |-> NoEntry]
    /\ pending = {}
    /\ built = [d \in Defs |-> 0]
    /\ convErr = "none"
    /\ conflict = "none"
    /\ convStep = "none"
    /\ backRef = FALSE
    /\ convErrField = 0
    /\ firstUnresolved = 0

ConvCommit(cs, step) ==
    /\ type_map' = cs.tm
    /\ built' = cs.built
    /\ convErr' = cs.err
    /\ conflict' = cs.conflict
    /\ convStep' = step
    /\ convErrField' = cs.errField

\* The schema builder asks for the node of a definition: from_type(d).
Request(d, deps) ==
    LET cs == FromType(ConvState, d, deps) IN
    /\ ConvCommit(cs, "request")
    /\ pending' = cs.pending
    /\ backRef' = FALSE
    /\ firstUnresolved' = 0
    /\ UNCHANGED <<invokeVars, annVars, fnVars>>

\* The deferred field list of node n is forced (graphql-core reads .fields, a
\* cached property): get_graphql_fields / get_graphql_input_fields.  When a
\* field conversion raises, no field list is stored and the thunk stays unforced.
ForceThunk(n, refs) ==
    /\ n \in pending
    /\ LET cs == GetThunkMapping(ConvState, refs, 1) IN
       /\ ConvCommit(cs, "force")
       /\ pending' = IF cs.err = "none" THEN cs.pending \ {n} ELSE cs.pending
       /\ backRef' = \E i \in DOMAIN refs :
                         /\ HasThunk(refs[i].kind)
                         /\ type_map[refs[i].name].definition = refs[i]
       /\ firstUnresolved' = FirstUnresolved(refs)
    /\ UNCHANGED <<invokeVars, annVars, fnVars>>

(***************************************************************************)
(* Type annotations (annotation.py)                                         *)
(*                                                                          *)
(* An annotation, raw or resolved, is a term [tag, name, args, meta]:       *)
(*   raw:      class, NoneType, UnsetType, enumclass, rawenum, objectclass, *)
(*             inputclass, TypeVar, str (a textual forward reference),      *)
(*             List, Union, Annotated, AsyncGenerator, GenericAlias         *)
(*   resolved: EnumDefinition, ScalarDefinition, LazyType, StrawberryList,  *)
(*             StrawberryOptional, StrawberryUnion, StrawberryTypeVar,      *)
(*             StrawberryAnnotated                                          *)
(*   raise:    the exception that ended the evaluation                      *)
(***************************************************************************)
Mk(tag, name, args, meta) == [tag |-> tag, name |-> name, args |-> args, meta |-> meta]

Atom(tag, name) == Mk(tag, name, <<>>, <<>>)

Raise(exc) == Atom("raise", exc)

IsRaise(t) == t.tag = "raise"

\* The first exception among the evaluated parts, in evaluation order.
FirstRaise(ts) == ts[CHOOSE i \in DOMAIN ts : IsRaise(ts[i]) /\ \A j \in 1..(i - 1) : ~IsRaise(ts[j])]

AnyRaise(ts) == \E i \in DOMAIN ts : IsRaise(ts[i])

NoneType == Atom("NoneType", "NoneType")

UnsetType == Atom("UnsetType", "UnsetType")

\* field.py: UNRESOLVED = object()
UNRESOLVED == Atom("UNRESOLVED", "")

\* A name the namespace does not hold.
Undefined == Atom("undefined", "")

\* Nothing evaluated yet.
NoValue == Atom("novalue", "")

\* The marker a metadata list can hold besides plain values: StrawberryLazyReference.
LazyMarker == "lazy"

RECURSIVE Flatten(_)
\* typing.Union flattens unions among its parameters.
Flatten(ts) ==
    IF ts = <<>> THEN <<>>
    ELSE (IF Head(ts).tag = "Union" THEN Head(ts).args ELSE <<Head(ts)>>) \o Flatten(Tail(ts))

RECURSIVE Dedupe(_, _)
\* typing.Union keeps the first occurrence of each parameter.
Dedupe(ts, acc) ==
    IF ts = <<>> THEN acc
    ELSE IF \E i \in DOMAIN acc : acc[i] = Head(ts) THEN Dedupe(Tail(ts), acc)
    ELSE Dedupe(Tail(ts), Append(acc, Head(ts)))

\* Union[members] as typing builds it: no members is a TypeError, a single
\* member is that member itself.
PyUnion(members) ==
    LET ms == Dedupe(Flatten(members), <<>>) IN
    IF ms = <<>> THEN Raise("TypeError")
    ELSE IF Len(ms) = 1 THEN ms[1]
    ELSE Mk("Union", "", ms, <<>>)

PyAnnotatedWithoutMetadata(base, meta) == base

\* Annotated[(base, *meta)] as typing builds it: nested Annotated is flattened.
PyAnnotated(base, meta) ==
    IF base.tag = "Annotated" THEN Mk("Annotated", "", base.args, base.meta \o meta)
    ELSE Mk("Annotated", "", <<base>>, meta)

IsLazyMarker(m) == m = LazyMarker

NotLazyMarker(m) == m # LazyMarker

RECURSIVE parse_annotated(_)
\* StrawberryAnnotation.parse_annotated
parse_annotated(annotation) ==
    IF annotation.tag = "Annotated" THEN
        LET base_type == annotation.args[1]
            lazies == Len(SelectSeq(annotation.meta, IsLazyMarker))
            annotated_args == SelectSeq(annotation.meta, NotLazyMarker)
        IN  IF lazies > 0 /\ base_type.tag # "str" THEN Raise("AssertionError")
            ELSE IF lazies > 1 THEN Raise("AssertionError")
            ELSE LET parsed == parse_annotated(IF lazies = 1
                                                   THEN Atom("LazyType", base_type.name)
                                                   ELSE base_type)
                 IN  IF IsRaise(parsed) THEN parsed
                     ELSE IF annotated_args # <<>> THEN PyAnnotated(parsed, annotated_args)
                     ELSE parsed
    ELSE IF annotation.tag = "Union" THEN
        LET parsed == [i \in DOMAIN annotation.args |-> parse_annotated(annotation.args[i])]
        IN  IF AnyRaise(parsed) THEN FirstRaise(parsed) ELSE PyUnion(parsed)
    ELSE IF annotation.tag \in {"List", "GenericAlias"} THEN
        LET parsed == [i \in DOMAIN annotation.args |-> parse_annotated(annotation.args[i])]
        IN  IF AnyRaise(parsed) THEN FirstRaise(parsed)
            ELSE Mk(annotation.tag, annotation.name, parsed, <<>>)
    ELSE annotation

RECURSIVE EvalType(_, _)
\* typing._eval_type(annotation, namespace, None): a forward reference is
\* looked up in the namespace (NameError when the name is absent), the
\* parameters of a generic alias are evaluated and the alias is rebuilt.
EvalType(annotation, ns) ==
    IF annotation.tag = "str" THEN
        IF ns[annotation.name] = Undefined THEN Raise("NameError") ELSE ns[annotation.name]
    ELSE IF annotation.tag \in {"List", "Union", "Annotated", "AsyncGenerator", "GenericAlias"} THEN
        LET evaled == [i \in DOMAIN annotation.args |-> EvalType(annotation.args[i], ns)]
        IN  IF AnyRaise(evaled) THEN FirstRaise(evaled)
            ELSE IF annotation.tag = "Union" THEN PyUnion(evaled)
            ELSE IF annotation.tag = "Annotated" THEN PyAnnotated(evaled[1], annotation.meta)
            ELSE Mk(annotation.tag, annotation.name, evaled, <<>>)
    ELSE annotation

RECURSIVE GetTypeAndArgs(_)
\* StrawberryAnnotated.get_type_and_args: the type inside the metadata
\* wrappers and the metadata values collected from them, innermost first.
GetTypeAndArgs(type_) ==
    IF type_.tag \in {"Annotated", "StrawberryAnnotated"} THEN
        LET inner == GetTypeAndArgs(type_.args[1])
        IN  <<inner[1], inner[2] \o type_.meta>>
    ELSE <<type_, <<>>>>

\* StrawberryAnnotated(of_type, *args)
StrawberryAnnotated(of_type, args) == Mk("StrawberryAnnotated", "", <<of_type>>, args)

\* StrawberryList(of_type)
StrawberryList(of_type) == Mk("StrawberryList", "", <<of_type>>, <<>>)

\* StrawberryOptional(of_type)
StrawberryOptional(of_type) == Mk("StrawberryOptional", "", <<of_type>>, <<>>)

\* Equality of resolved types: containers compare by content.
NodeEq(a, b) == a = b

_is_async_type(annotation) == annotation.tag = "AsyncGenerator"

_strip_async_type(annotation) == annotation.args[1]

_is_lazy_type(annotation) == annotation.tag = "LazyType"

_is_generic(annotation) == annotation.tag = "GenericAlias"

_is_strawberry_type(evaled_type) ==
    evaled_type.tag \in {"EnumDefinition", "inputclass", "StrawberryList", "objectclass",
                         "TypeDefinition", "StrawberryOptional", "ScalarDefinition",
                         "StrawberryUnion"}

_is_enum(annotation) == annotation.tag \in {"enumclass", "rawenum"}

_is_list(annotation) == annotation.tag = "List"

_is_union(annotation) == annotation.tag = "Union"

_is_optional(annotation) ==
    /\ _is_union(annotation)
    /\ \E i \in DOMAIN annotation.args : annotation.args[i] = NoneType

is_type_var(annotation) == annotation.tag = "TypeVar"

\* TypeDefinition.resolve_generic: the specialisation of a generic object type
\* for its type arguments.
resolve_generic(evaled_type) == Mk("objectclass", evaled_type.name, evaled_type.args, <<>>)

\* The name of the generic class that is a strawberry object type; any other
\* generic class is a plain Python generic.
GenericObject == "G"

create_concrete_type(evaled_type) ==
    IF evaled_type.name = GenericObject THEN resolve_generic(evaled_type)
    ELSE Raise("ValueError")

create_enum(evaled_type) ==
    IF evaled_type.tag = "enumclass" THEN Atom("EnumDefinition", evaled_type.name)
    ELSE Raise("StrawberryException")

create_type_var(evaled_type) == Atom("StrawberryTypeVar", evaled_type.name)

create_union(evaled_type) == Mk("StrawberryUnion", "", evaled_type.args, <<>>)

NonOptionalNoneOnly(x) == x # NoneType

\* create_optional's filter: x is not type(None) and x is not type(UNSET)
NonOptional(x) == x # NoneType /\ x # UnsetType

RewrapDuplicating(ret, evaled_args) ==
    IF evaled_args # <<>> THEN StrawberryAnnotated(ret, evaled_args \o evaled_args) ELSE ret

\* resolve's last step: if evaled_args: ret = StrawberryAnnotated(ret, *evaled_args)
Rewrap(ret, evaled_args) ==
    IF evaled_args # <<>> THEN StrawberryAnnotated(ret, evaled_args) ELSE ret

RECURSIVE resolve(_, _)
\* StrawberryAnnotation(annotation, namespace=ns).resolve()
resolve(annotation, ns) ==
    LET parsed == parse_annotated(annotation)
        evaled == IF IsRaise(parsed) THEN parsed ELSE EvalType(parsed, ns)
    IN  IF IsRaise(evaled) THEN evaled
        ELSE
        LET type_and_args == GetTypeAndArgs(evaled)
            evaled_args == type_and_args[2]
            evaled_type == IF _is_async_type(type_and_args[1])
                           THEN _strip_async_type(type_and_args[1])
                           ELSE type_and_args[1]
            \* create_list
            create_list == LET of_type == resolve(evaled_type.args[1], ns)
                           IN  IF IsRaise(of_type) THEN of_type
                               ELSE StrawberryList(of_type)
            \* create_optional
            create_optional ==
                LET child_type == PyUnion(SelectSeq(evaled_type.args, NonOptional))
                    of_type == IF IsRaise(child_type) THEN child_type
                               ELSE resolve(child_type, ns)
                IN  IF IsRaise(of_type) THEN of_type
                    ELSE StrawberryOptional(of_type)
            ret == IF _is_lazy_type(evaled_type) THEN evaled_type
                   ELSE IF _is_generic(evaled_type) THEN
                       IF \E i \in DOMAIN evaled_type.args : is_type_var(evaled_type.args[i])
                       THEN evaled_type
                       ELSE create_concrete_type(evaled_type)
                   ELSE IF _is_strawberry_type(evaled_type) THEN evaled_type
                   ELSE IF _is_enum(evaled_type) THEN create_enum(evaled_type)
                   ELSE IF _is_list(evaled_type) THEN create_list
                   ELSE IF _is_optional(evaled_type) THEN create_optional
                   ELSE IF _is_union(evaled_type) THEN create_union(evaled_type)
                   ELSE IF is_type_var(evaled_type) THEN create_type_var(evaled_type)
                   ELSE evaled_type
        IN  IF IsRaise(ret) THEN ret ELSE Rewrap(ret, evaled_args)

(***************************************************************************)
(* The annotations, namespaces and fields the checks draw from              *)
(***************************************************************************)
AtomAnnotations ==
    {Atom("class", "str"), NoneType, UnsetType, Atom("enumclass", "E"), Atom("rawenum", "R"),
     Atom("objectclass", "O"), Atom("inputclass", "I"), Atom("TypeVar", "V"),
     Atom("str", "T"), Atom("ScalarDefinition", "S"), Atom("TypeDefinition", "D"),
     Atom("EnumDefinition", "E")}
    \cup {Mk("GenericAlias", g, <<a>>, <<>>) :
            g \in {GenericObject, "P"}, a \in {Atom("class", "str"), Atom("TypeVar", "V")}}
    \cup {Mk("AsyncGenerator", "", <<a>>, <<>>) :
            a \in {Atom("class", "str"), Atom("objectclass", "O")}}

\* The members unions are built from.
Members == {Atom("objectclass", "O"), Atom("class", "str"), NoneType, UnsetType}

UnionAnnotations ==
    LET ms == {m \in SeqsUpTo(Members, MaxMembers) :
                  /\ Len(m) >= 2
                  /\ \A i, j \in DOMAIN m : i # j => m[i] # m[j]}
    IN  {Mk("Union", "", m, <<>>) : m \in ms}

\* The metadata lists of Annotated[...]: plain values and lazy-reference markers.
MetaSeqs == {<<"m">>, <<LazyMarker>>, <<"m", LazyMarker>>, <<LazyMarker, LazyMarker>>}

RECURSIVE Annotations(_)
\* The annotations nested at most d deep.
Annotations(d) ==
    IF d = 0 THEN AtomAnnotations
    ELSE LET sub == Annotations(d - 1)
             plain == {t \in sub : t.tag # "Annotated"}
         IN  sub \cup UnionAnnotations
                 \cup {Mk("List", "", <<t>>, <<>>) : t \in sub}
                 \cup {Mk("Annotated", "", <<t>>, m) : t \in plain, m \in MetaSeqs}

\* What the name T can be defined as: a class, or an alias of a type.
Bindings ==
    {Atom("objectclass", "O"), Atom("inputclass", "I"), Atom("enumclass", "E"),
     Atom("class", "str"),
     Mk("Union", "", <<Atom("objectclass", "O"), NoneType>>, <<>>),
     Mk("List", "", <<Atom("objectclass", "O")>>, <<>>)}

\* The annotations of the fields whose type is read.
FieldAnnotations ==
    AtomAnnotations
    \cup {Mk("List", "", <<Atom("str", "T")>>, <<>>),
          Mk("Annotated", "", <<Atom("str", "T")>>, <<"m">>),
          Mk("Union", "", <<Atom("objectclass", "O"), NoneType>>, <<>>)}

\* field.base_resolver and what its type evaluates to: no resolver, a resolver
\* without return annotation (type None), a type variable, a type, NameError.
NoResolver == Atom("noresolver", "")

PyNone == Atom("None", "")

ResolverTypes ==
    {NoResolver, PyNone, Atom("StrawberryTypeVar", "V"), Atom("objectclass", "O"),
     Raise("NameError")}

CatchNameErrorNot(result) == result

\* StrawberryField.type: except NameError: return UNRESOLVED
CatchNameError(result) == IF result = Raise("NameError") THEN UNRESOLVED ELSE result

\* StrawberryField.type
FieldType(ta, resolver_type, ns) ==
    CatchNameError(
        IF /\ resolver_type # NoResolver
           /\ resolver_type # PyNone
           /\ resolver_type.tag # "StrawberryTypeVar"
        THEN resolver_type
        ELSE IF ~ta.wrapped THEN ta.annotation
        ELSE resolve(ta.annotation, ns))

AnnIdle ==
    /\ decl = "idle"
    /\ type_annotation = [wrapped |-> TRUE, annotation |-> NoValue]
    /\ base_resolver_type = NoResolver
    /\ namespace = [T |-> Undefined]
    /\ read = NoValue
    /\ readNs = [T |-> Undefined]
    /\ sawUnresolved = FALSE
    /\ resolved = NoValue
    /\ again = NoValue

\* annotation = StrawberryAnnotation(a, namespace=...) in a module where T is b.
Annotate(a, b) ==
    /\ decl = "idle"
    /\ decl' = "annotation"
    /\ type_annotation' = [wrapped |-> TRUE, annotation |-> a]
    /\ namespace' = [T |-> b]
    /\ UNCHANGED <<base_resolver_type, read, readNs, sawUnresolved, resolved, again>>
    /\ UNCHANGED <<invokeVars, convVars, fnVars>>

\* A field is declared: its type_annotation (a StrawberryAnnotation, or the raw
\* value dataclasses assigns through the type setter) and its resolver.
DeclareField(a, w, rt, b) ==
    /\ decl = "idle"
    /\ decl' = "field"
    /\ type_annotation' = [wrapped |-> w, annotation |-> a]
    /\ base_resolver_type' = rt
    /\ namespace' = [T |-> b]
    /\ UNCHANGED <<read, readNs, sawUnresolved, resolved, again>>
    /\ UNCHANGED <<invokeVars, convVars, fnVars>>

\* Module evaluation reaches the definition of T.
DefineName(b) ==
    /\ decl # "idle"
    /\ namespace["T"] = Undefined
    /\ namespace' = [T |-> b]
    /\ UNCHANGED <<decl, type_annotation, base_resolver_type, read, readNs, sawUnresolved,
                   resolved, again>>
    /\ UNCHANGED <<invokeVars, convVars, fnVars>>

\* annotation.resolve()
ResolveAnnotation ==
    /\ decl = "annotation"
    /\ resolved' = resolve(type_annotation.annotation, namespace)
    /\ again' = NoValue
    /\ UNCHANGED <<decl, type_annotation, base_resolver_type, namespace, read, readNs,
                   sawUnresolved>>
    /\ UNCHANGED <<invokeVars, convVars, fnVars>>

\* StrawberryAnnotation(r).resolve() for the node r resolved last.
ResolveAgain ==
    /\ decl = "annotation"
    /\ resolved # NoValue
    /\ ~IsRaise(resolved)
    /\ again' = resolve(resolved, namespace)
    /\ UNCHANGED <<decl, type_annotation, base_resolver_type, namespace, read, readNs,
                   sawUnresolved, resolved>>
    /\ UNCHANGED <<invokeVars, convVars, fnVars>>

\* field.type is read.
ReadType ==
    /\ decl = "field"
    /\ read' = FieldType(type_annotation, base_resolver_type, namespace)
    /\ readNs' = namespace
    /\ sawUnresolved' = (sawUnresolved \/ read' = UNRESOLVED)
    /\ UNCHANGED <<decl, type_annotation, base_resolver_type, namespace, resolved, again>>
    /\ UNCHANGED <<invokeVars, convVars, fnVars>>

(***************************************************************************)
(* Enum wire behaviour (CustomGraphQLEnumType, from_enum)                   *)
(***************************************************************************)
MemberNames == {"A", "B", "C"}

\* The values of the members: some are spelled like the name of another member.
MemberValues == {"A", "B", "v"}

\* A member of an enum: its name and its value.
MemberName(m) == m[1]

MemberValue(m) == m[2]

\* An enum definition is the set of its members; names and values are unique
\* (Python makes members of equal value aliases of one member).
EnumDefinitions ==
    {e \in SUBSET (MemberNames \X MemberValues) :
        /\ e # {}
        /\ Cardinality(e) <= MaxEnumValues
        /\ \A m1, m2 \in e :
              (MemberName(m1) = MemberName(m2) \/ MemberValue(m1) = MemberValue(m2))
                 => m1 = m2}

\* What crosses the wire or is handed to application code: an enum member, the
\* raw value of a member, a string, or the error raised instead.
MemberVal(m) == <<"member", MemberName(m), MemberValue(m)>>

RawVal(v) == <<"raw", "", v>>

StrVal(s) == <<"str", s, "">>

EnumValueNode(s) == <<"EnumValueNode", s, "">>

StringValueNode(s) == <<"StringValueNode", s, "">>

WireError(e) == <<"error", e, "">>

\* What a wire value is, the name it carries and the value it holds.
WireKind(w) == w[1]

WireName(w) == w[2]

WireValue(w) == w[3]

\* The error graphql-core raises for a value it cannot coerce; it fails the
\* request, not the schema.
GraphQLError == WireError("GraphQLError")

\* The error Enum raises for a value no member has.
ValueError == WireError("ValueError")

\* The raw values a resolver can return instead of a member.
RawValues == {RawVal(v) : v \in MemberValues}

\* from_enum: values={item.name: self.from_enum_value(item, ...)} where
\* from_enum_value builds GraphQLEnumValue(enum_value.value).
from_enum_values(enum) ==
    [n \in {MemberName(m) : m \in enum} |->
        MemberValue(CHOOSE m \in enum : MemberName(m) = n)]

\* CustomGraphQLEnumType(enum=enum, values=...)
CustomGraphQLEnumType(enum) == [wrapped_cls |-> enum, values |-> from_enum_values(enum)]

\* GraphQLEnumType.serialize: the name whose GraphQLEnumValue holds the output
\* value; an enum member is not the value it holds.
GraphQLEnumType_serialize(node, output_value) ==
    IF /\ WireKind(output_value) = "raw"
       /\ \E n \in DOMAIN node.values : node.values[n] = WireValue(output_value)
    THEN StrVal(CHOOSE n \in DOMAIN node.values : node.values[n] = WireValue(output_value))
    ELSE GraphQLError

serialize_without_member_case(node, output_value) ==
    GraphQLEnumType_serialize(node, output_value)

\* CustomGraphQLEnumType.serialize
serialize(node, output_value) ==
    IF /\ WireKind(output_value) = "member"
       /\ <<WireName(output_value), WireValue(output_value)>> \in node.wrapped_cls
    THEN StrVal(WireName(output_value))
    ELSE GraphQLEnumType_serialize(node, output_value)

\* GraphQLEnumType.parse_value: the value held under the given name.
GraphQLEnumType_parse_value(node, input_value) ==
    IF WireKind(input_value) = "str" /\ WireName(input_value) \in DOMAIN node.values
    THEN RawVal(node.values[WireName(input_value)])
    ELSE GraphQLError

\* GraphQLEnumType.parse_literal: only an enum value node is accepted.
GraphQLEnumType_parse_literal(node, value_node) ==
    IF WireKind(value_node) = "EnumValueNode" /\ WireName(value_node) \in DOMAIN node.values
    THEN RawVal(node.values[WireName(value_node)])
    ELSE GraphQLError

\* self.wrapped_cls(value): the member of the value, ValueError when there is
\* none; an error raised by the base class propagates.
wrapped_cls(node, raw) ==
    IF WireKind(raw) = "error" THEN raw
    ELSE IF \E m \in node.wrapped_cls : MemberValue(m) = WireValue(raw)
    THEN MemberVal(CHOOSE m \in node.wrapped_cls : MemberValue(m) = WireValue(raw))
    ELSE ValueError

\* CustomGraphQLEnumType.parse_value
parse_value(node, input_value) ==
    wrapped_cls(node, GraphQLEnumType_parse_value(node, input_value))

\* CustomGraphQLEnumType.parse_literal
parse_literal(node, value_node) ==
    wrapped_cls(node, GraphQLEnumType_parse_literal(node, value_node))

\* The identifiers a request can carry: member names, the spelling of a value
\* that is no name, an unknown word.
Identifiers == MemberNames \cup {"v", "Z"}

\* The values a resolver can return for an enum field.
OutputValues(enum) ==
    {MemberVal(m) : m \in enum} \cup RawValues

FnIdle ==
    /\ fn = "none"
    /\ fnArgs = <<>>
    /\ fnResult = <<>>

\* Result coercion of an enum field: serialize(output_value).
CallSerialize(enum, output_value) ==
    /\ fn' = "serialize"
    /\ fnArgs' = [enum |-> enum, value |-> output_value]
    /\ fnResult' = serialize(CustomGraphQLEnumType(enum), output_value)
    /\ UNCHANGED <<invokeVars, convVars, annVars>>

\* Variable coercion: parse_value(input_value).
CallParseValue(enum, input_value) ==
    /\ fn' = "parse_value"
    /\ fnArgs' = [enum |-> enum, value |-> input_value]
    /\ fnResult' = parse_value(CustomGraphQLEnumType(enum), input_value)
    /\ UNCHANGED <<invokeVars, convVars, annVars>>

\* Literal coercion: parse_literal(value_node).
CallParseLiteral(enum, value_node) ==
    /\ fn' = "parse_literal"
    /\ fnArgs' = [enum |-> enum, value |-> value_node]
    /\ fnResult' = parse_literal(CustomGraphQLEnumType(enum), value_node)
    /\ UNCHANGED <<invokeVars, convVars, annVars>>

\* The name a member was serialized to comes back in a request, as a variable
\* value or as a literal.
CallParseSerialized(literal) ==
    /\ fn = "serialize"
    /\ WireKind(fnArgs.value) = "member"
    /\ WireKind(fnResult) = "str"
    /\ fn' = IF literal THEN "parse_literal_of_serialized" ELSE "parse_value_of_serialized"
    /\ fnArgs' = fnArgs
    /\ fnResult' = IF literal
                   THEN parse_literal(CustomGraphQLEnumType(fnArgs.enum),
                                      EnumValueNode(WireName(fnResult)))
                   ELSE parse_value(CustomGraphQLEnumType(fnArgs.enum), fnResult)
    /\ UNCHANGED <<invokeVars, convVars, annVars>>

(***************************************************************************)
(* Nullability of converted types (from_maybe_optional, from_list)          *)
(***************************************************************************)
\* GraphQLNonNull(node); an exception raised while building node propagates.
GraphQLNonNull(node) ==
    IF IsRaise(node) THEN node ELSE Mk("GraphQLNonNull", "", <<node>>, <<>>)

\* GraphQLList(node)
GraphQLList(node) ==
    IF IsRaise(node) THEN node ELSE Mk("GraphQLList", "", <<node>>, <<>>)

\* The named node that from_object, from_scalar, ... return for a definition.
GraphQLNamedType(name) == Atom("GraphQLNamedType", name)

RECURSIVE from_maybe_optional(_, _)
RECURSIVE from_type(_, _)

from_list_of_nullable_elements(type_, none_is_scalar) ==
    GraphQLList(from_type(type_.args[1], none_is_scalar))

\* GraphQLCoreConverter.from_list
from_list(type_, none_is_scalar) ==
    GraphQLList(from_maybe_optional(type_.args[1], none_is_scalar))

\* GraphQLCoreConverter.from_type on resolved types.  none_is_scalar tells
\* whether the scalar registry has an entry for the null type; a type that no
\* branch accepts (a StrawberryOptional among them) is a TypeError.
from_type(type_, none_is_scalar) ==
    LET t == GetTypeAndArgs(type_)[1] IN
    IF t.tag = "StrawberryList" THEN from_list(t, none_is_scalar)
    ELSE IF t.tag = "objectclass" THEN GraphQLNamedType(t.name)
    ELSE IF t.tag = "class" THEN GraphQLNamedType("String")
    ELSE IF t = NoneType /\ none_is_scalar THEN GraphQLNamedType("Void")
    ELSE Raise("TypeError")

\* GraphQLCoreConverter.from_maybe_optional
from_maybe_optional(type_, none_is_scalar) ==
    LET t == GetTypeAndArgs(type_)[1] IN
    IF t = NoneType THEN from_type(t, none_is_scalar)
    ELSE IF t.tag = "StrawberryOptional" THEN from_type(t.args[1], none_is_scalar)
    ELSE GraphQLNonNull(from_type(t, none_is_scalar))

RECURSIVE ResolvedTypes(_)
\* The resolved types wrapped at most d times.
ResolvedTypes(d) ==
    IF d = 0 THEN {Atom("class", "str"), Atom("objectclass", "O"), NoneType}
    ELSE LET sub == ResolvedTypes(d - 1)
         IN  sub \cup {StrawberryOptional(t) : t \in sub}
                 \cup {StrawberryList(t) : t \in sub}
                 \cup {StrawberryAnnotated(t, <<"m">>) : t \in sub}

\* The converter is asked for the node of a field or argument type.
CallFromMaybeOptional(type_, none_is_scalar) ==
    /\ fn' = "from_maybe_optional"
    /\ fnArgs' = [type |-> type_, none_is_scalar |-> none_is_scalar]
    /\ fnResult' = from_maybe_optional(type_, none_is_scalar)
    /\ UNCHANGED <<invokeVars, convVars, annVars>>

(***************************************************************************)
(* Argument conversion (convert_argument, convert_arguments)                *)
(***************************************************************************)
\* Request values and converted values: None, the unset sentinel, a scalar, a
\* list, a mapping from public names to values, the keyword arguments handed
\* to application code, an instance of an input class, a raised exception.
Val(kind, items, names) == [kind |-> kind, items |-> items, names |-> names]

ValNone == Val("None", <<>>, <<>>)

ValUnset == Val("UNSET", <<>>, <<>>)

ValScalar(s) == Val("scalar", <<>>, <<s>>)

ValList(items) == Val("list", items, <<>>)

ValMapping(names, items) == Val("mapping", items, names)

ValRaise(exc) == Val("raise", <<>>, <<exc>>)

IsValRaise(v) == v.kind = "raise"

\* `name in value`
Present(value, name) == \E i \in DOMAIN value.names : value.names[i] = name

\* value[name]
Lookup(value, name) == value.items[CHOOSE i \in DOMAIN value.names : value.names[i] = name]

\* A field of an input class or a declared argument: the name used by the
\* application, the public name given by the name converter, the type and the
\* declared default.
Declared(python_name, graphql_name, type_, default) ==
    [python_name |-> python_name, graphql_name |-> graphql_name, type |-> type_,
     default |-> default]

\* The fields of the input class I.
InputFields ==
    <<Declared("my_a", "myA", StrawberryOptional(Atom("class", "str")), ValUnset),
      Declared("b", "b", StrawberryAnnotated(Atom("class", "str"), <<"m">>), ValScalar("d"))>>

\* The declared entries whose public name is in the mapping, in declaration order.
PresentIndexes(value, declared) ==
    SelectSeq([i \in DOMAIN declared |-> i],
              LAMBDA i : Present(value, declared[i].graphql_name))

\* The first exception raised while the items are converted in order.
FirstValRaise(items) ==
    items[CHOOSE i \in DOMAIN items :
            IsValRaise(items[i]) /\ \A j \in 1..(i - 1) : ~IsValRaise(items[j])]

AnyValRaise(items) == \E i \in DOMAIN items : IsValRaise(items[i])

\* type_(**kwargs): the dataclass takes the declared default of every field
\* that got no keyword argument.
Construct(kwargs, fields) ==
    Val("instance",
        [i \in DOMAIN fields |->
            IF Present(kwargs, fields[i].python_name)
            THEN Lookup(kwargs, fields[i].python_name)
            ELSE fields[i].default],
        [i \in DOMAIN fields |-> fields[i].python_name])

ConvertNoneToUnset(value) == ValUnset

\* if value is None: return None
ConvertNone(value) == ValNone

RECURSIVE convert_argument(_, _)
\* convert_argument(value, type_, scalar_registry, config)
convert_argument(value, type_) ==
    IF value = ValNone THEN ConvertNone(value)
    ELSE IF value = ValUnset THEN ValUnset
    ELSE IF type_.tag \in {"StrawberryOptional", "StrawberryAnnotated"}
    THEN convert_argument(value, type_.args[1])
    ELSE IF type_.tag = "StrawberryList"
    THEN LET items == [i \in DOMAIN value.items |->
                          convert_argument(value.items[i], type_.args[1])]
         IN  IF AnyValRaise(items) THEN FirstValRaise(items) ELSE ValList(items)
    ELSE IF type_.tag = "class" THEN value
    ELSE IF type_.tag = "EnumDefinition" THEN value
    ELSE IF type_.tag = "enumclass"
    THEN convert_argument(value, Atom("EnumDefinition", type_.name))
    ELSE IF type_.tag \in {"inputclass", "objectclass"}
    THEN IF type_.tag # "inputclass" THEN ValRaise("AssertionError")
         ELSE LET idx == PresentIndexes(value, InputFields)
                  items == [k \in DOMAIN idx |->
                              convert_argument(Lookup(value, InputFields[idx[k]].graphql_name),
                                               InputFields[idx[k]].type)]
                  kwargs == ValMapping([k \in DOMAIN idx |-> InputFields[idx[k]].python_name],
                                       items)
              IN  IF AnyValRaise(items) THEN FirstValRaise(items)
                  ELSE Construct(kwargs, InputFields)
    ELSE ValRaise("UnsupportedTypeError")

\* convert_arguments(value, arguments, scalar_registry, config)
convert_arguments(value, arguments) ==
    IF arguments = <<>> THEN Val("kwargs", <<>>, <<>>)
    ELSE LET idx == PresentIndexes(value, arguments)
             items == [k \in DOMAIN idx |->
                         convert_argument(Lookup(value, arguments[idx[k]].graphql_name),
                                          arguments[idx[k]].type)]
         IN  IF AnyValRaise(items) THEN FirstValRaise(items)
             ELSE Val("kwargs", items, [k \in DOMAIN idx |-> arguments[idx[k]].python_name])

\* The declared types of arguments.
ArgumentTypes ==
    {Atom("class", "str"), StrawberryOptional(Atom("class", "str")),
     StrawberryList(StrawberryOptional(Atom("class", "str"))),
     StrawberryAnnotated(StrawberryOptional(Atom("class", "str")), <<"m">>),
     Atom("enumclass", "E"), Atom("inputclass", "I"),
     StrawberryOptional(Atom("inputclass", "I")),
     Atom("objectclass", "O"), Atom("TypeVar", "V")}

\* The mappings a request can hold for the declared entries: each entry is
\* absent or has one of the values of its type.
Mappings(declared, valuesOf(_)) ==
    LET present == SUBSET DOMAIN declared
        pick(S) == SelectSeq([i \in DOMAIN declared |-> i], LAMBDA i : i \in S)
    IN  UNION {{ValMapping([k \in DOMAIN pick(S) |-> declared[pick(S)[k]].graphql_name], xs) :
                   xs \in {ys \in [DOMAIN pick(S) -> UNION {valuesOf(declared[i].type) : i \in S}] :
                              \A k \in DOMAIN pick(S) : ys[k] \in valuesOf(declared[pick(S)[k]].type)}} :
               S \in present}

\* The values a request can hold for a position of a leaf type.
LeafValues == {ValNone, ValUnset, ValScalar("s")}

\* The values a request can hold for a position of the given type: a value of
\* the type, None or the unset sentinel.
ValuesOf(type_) ==
    LET leaf(t) == LeafValues
        inner == IF type_.tag \in {"StrawberryOptional", "StrawberryAnnotated"}
                 THEN type_.args[1] ELSE type_
    IN  IF inner.tag = "StrawberryList"
        THEN {ValNone, ValUnset} \cup {ValList(xs) : xs \in SeqsUpTo(LeafValues, MaxItems)}
        ELSE IF inner.tag = "inputclass"
        THEN {ValNone, ValUnset} \cup Mappings(InputFields, leaf)
        ELSE LeafValues

\* The argument lists of a resolver: one or two declared arguments.
ArgumentLists ==
    {<<>>}
    \cup {<<Declared("first_arg", "firstArg", t, ValUnset)>> : t \in ArgumentTypes}
    \cup {<<Declared("first_arg", "firstArg", t, ValUnset),
            Declared("second", "second", u, ValUnset)>> :
            t \in ArgumentTypes, u \in {StrawberryOptional(Atom("class", "str"))}}

\* A request reaches a resolver with the given declared arguments.
CallConvertArguments(arguments, value) ==
    /\ fn' = "convert_arguments"
    /\ fnArgs' = [arguments |-> arguments, value |-> value]
    /\ fnResult' = convert_arguments(value, arguments)
    /\ UNCHANGED <<invokeVars, convVars, annVars>>

(***************************************************************************)
(* Argument metadata override (StrawberryArgument._parse_annotated)         *)
(***************************************************************************)
\* The override blocks (StrawberryArgumentAnnotation) a metadata list can hold.
Blocks == {"block1", "block2"}

IsBlock(arg) == arg \in Blocks

\* The contents of an override block; "None" stands for an option left out.
BlockOf(arg) ==
    IF arg = "block1"
    THEN [name |-> "nameOfBlock1", description |-> "description of block1",
          description_sources |-> "sources of block1",
          deprecation_reason |-> "None", directives |-> "directives of block1"]
    ELSE [name |-> "None", description |-> "description of block2",
          description_sources |-> "None",
          deprecation_reason |-> "reason of block2", directives |-> "directives of block2"]

\* StrawberryArgument.__init__ before self._parse_annotated()
NewStrawberryArgument(python_name, graphql_name, annotation) ==
    [python_name |-> python_name, graphql_name |-> graphql_name,
     description |-> "description given", description_sources |-> "sources given",
     deprecation_reason |-> "reason given", directives |-> "directives given",
     type_annotation |-> annotation, err |-> "none", argument_name |-> "none"]

RaiseMultipleNot(self) == self

\* raise MultipleStrawberryArgumentsError(argument_name=self.python_name)
RaiseMultiple(self) ==
    [self EXCEPT !.err = "MultipleStrawberryArgumentsError",
                 !.argument_name = self.python_name]

\* The assignments made for an override block.
ApplyBlock(self, arg) ==
    [self EXCEPT !.description_sources = BlockOf(arg).description_sources,
                 !.description = BlockOf(arg).description,
                 !.graphql_name = BlockOf(arg).name,
                 !.deprecation_reason = BlockOf(arg).deprecation_reason,
                 !.directives = BlockOf(arg).directives]

RECURSIVE ParseAnnotatedArgs(_, _, _, _, _)
\* The loop of _parse_annotated from the i-th metadata value on.
ParseAnnotatedArgs(self, base_type, annotated_args, i, argument_annotation_seen) ==
    IF i > Len(annotated_args) THEN self
    ELSE LET arg == annotated_args[i] IN
         IF IsBlock(arg) /\ argument_annotation_seen THEN RaiseMultiple(self)
         ELSE LET s1 == IF IsBlock(arg) THEN ApplyBlock(self, arg) ELSE self
                  seen == argument_annotation_seen \/ IsBlock(arg)
              IN  IF arg # LazyMarker
                  THEN ParseAnnotatedArgs(s1, base_type, annotated_args, i + 1, seen)
                  ELSE IF base_type.tag # "str"
                  THEN [s1 EXCEPT !.err = "AssertionError"]
                  ELSE ParseAnnotatedArgs(
                          [s1 EXCEPT !.type_annotation =
                              StrawberryAnnotated(Atom("LazyType", base_type.name),
                                                  SelectSeq(annotated_args, NotLazyMarker))],
                          base_type, annotated_args, i + 1, seen)

\* StrawberryArgument._parse_annotated
_parse_annotated(self) ==
    LET ta == GetTypeAndArgs(self.type_annotation)
    IN  ParseAnnotatedArgs(self, ta[1], ta[2], 1, FALSE)

\* The annotations of resolver arguments: a type or a forward reference,
\* bare or with metadata.
ArgumentAnnotations ==
    LET bases == {Atom("class", "str"), Atom("str", "T")}
    IN  bases \cup {Mk("Annotated", "", <<b>>, m) :
                      b \in bases,
                      m \in SeqsUpTo({"m", LazyMarker} \cup Blocks, MaxMeta) \ {<<>>}}

\* StrawberryArgument(python_name, graphql_name, type_annotation, ...)
CallStrawberryArgument(graphql_name, annotation) ==
    /\ fn' = "StrawberryArgument"
    /\ fnArgs' = NewStrawberryArgument("python_name", graphql_name, annotation)
    /\ fnResult' = _parse_annotated(NewStrawberryArgument("python_name", graphql_name, annotation))
    /\ UNCHANGED <<invokeVars, convVars, annVars>>

(***************************************************************************)
(* Field annotations of a declared type (_check_field_annotations)          *)
(***************************************************************************)
\* An entry of cls.__dict__: its name is its position.  kind tells whether the
\* value is a StrawberryField, a dataclasses.Field or something else;
\* annotation is the class-level annotation ("none" when the class has none
\* for the name); resolver is "none", "unannotated" (a resolver whose
\* type_annotation is None) or the return annotation of the resolver.
ClassEntries ==
    [kind : {"StrawberryField"}, annotation : {"none", "int"},
     resolver : {"none", "unannotated", "str"}]
    \cup [kind : {"dataclasses.Field", "other"}, annotation : {"none", "int"},
          resolver : {"none"}]

\* The classes handed to strawberry.type.
Classes == SeqsUpTo(ClassEntries, MaxClassFields)

\* cls.__annotations__ and the outcome of the declaration.
Declaration(annotations, err, field_name, defined) ==
    [annotations |-> annotations, err |-> err, field_name |-> field_name,
     defined |-> defined]

NotInAnnotationsOrStrawberryField(cls_annotations, field_name, field_) ==
    cls_annotations[field_name] = "none" \/ field_.kind = "StrawberryField"

\* field_name not in cls_annotations
NotInAnnotations(cls_annotations, field_name, field_) ==
    cls_annotations[field_name] = "none"

RECURSIVE CheckFieldAnnotations(_, _, _)
\* The loop of _check_field_annotations from the entry field_name on.
CheckFieldAnnotations(cls, cls_annotations, field_name) ==
    IF field_name > Len(cls) THEN Declaration(cls_annotations, "none", 0, FALSE)
    ELSE LET field_ == cls[field_name] IN
         IF field_.kind = "other"
         THEN CheckFieldAnnotations(cls, cls_annotations, field_name + 1)
         ELSE IF field_.kind = "StrawberryField"
                   /\ NotInAnnotations(cls_annotations, field_name, field_)
         THEN IF field_.resolver = "none"
              THEN Declaration(cls_annotations, "MissingFieldAnnotationError", field_name, FALSE)
              ELSE IF field_.resolver = "unannotated"
              THEN Declaration(cls_annotations, "MissingReturnAnnotationError", field_name, FALSE)
              ELSE CheckFieldAnnotations(
                      cls, [cls_annotations EXCEPT ![field_name] = field_.resolver],
                      field_name + 1)
         ELSE IF NotInAnnotations(cls_annotations, field_name, field_)
         THEN Declaration(cls_annotations, "MissingFieldAnnotationError", field_name, FALSE)
         ELSE CheckFieldAnnotations(cls, cls_annotations, field_name + 1)

\* _check_field_annotations(cls)
_check_field_annotations(cls) ==
    CheckFieldAnnotations(cls, [i \in DOMAIN cls |-> cls[i].annotation], 1)

\* strawberry.type: wrap(cls) runs _wrap_dataclass, which checks the
\* annotations first, and then _process_type, which sets
\* cls._type_definition.
wrap(cls) ==
    LET checked == _check_field_annotations(cls)
    IN  IF checked.err # "none" THEN checked
        ELSE [checked EXCEPT !.defined = TRUE]

CallWrap(cls) ==
    /\ fn' = "wrap"
    /\ fnArgs' = cls
    /\ fnResult' = wrap(cls)
    /\ UNCHANGED <<invokeVars, convVars, annVars>>

(***************************************************************************)
(* Attaching a resolver to a field (StrawberryField.__call__)               *)
(***************************************************************************)
\* An argument of a resolver: whether its annotation was written as a string
\* (a forward reference) and the type the annotation resolves to.
ResolverArguments ==
    [annotation_is_str : BOOLEAN,
     type : {"scalar", "input", "StrawberryUnion", "interface", "Optional[StrawberryUnion]"}]

\* The resolvers: their arguments in order; the position is the python_name.
Resolvers == SeqsUpTo(ResolverArguments, MaxArguments)

\* StrawberryField.__init__ without base_resolver: is_basic_field = not
\* base_resolver decides init, repr and compare.
NewStrawberryField ==
    [base_resolver |-> <<>>, has_resolver |-> FALSE,
     init |-> TRUE, repr |-> TRUE, compare |-> TRUE]

SetBaseResolverInitOnly(self, resolver) ==
    [self EXCEPT !.base_resolver = resolver, !.has_resolver = TRUE, !.init = FALSE]

\* The base_resolver setter.
SetBaseResolver(self, resolver) ==
    [self EXCEPT !.base_resolver = resolver, !.has_resolver = TRUE,
                 !.init = FALSE, !.compare = FALSE, !.repr = FALSE]

\* The outcome of a call: the field afterwards and the exception raised.
CallOutcome(self, err, python_name, kind) ==
    [field |-> self, err |-> err, argument_name |-> python_name, argument_kind |-> kind]

RECURSIVE CheckResolverArguments(_, _, _)
\* The loop of __call__ over resolver.arguments from the i-th argument on,
\* followed by self.base_resolver = resolver.
CheckResolverArguments(self, resolver, i) ==
    IF i > Len(resolver) THEN CallOutcome(SetBaseResolver(self, resolver), "none", 0, "none")
    ELSE IF resolver[i].annotation_is_str THEN CheckResolverArguments(self, resolver, i + 1)
    ELSE IF resolver[i].type = "StrawberryUnion"
    THEN CallOutcome(self, "InvalidFieldArgument", i, "Union")
    ELSE IF resolver[i].type = "interface"
    THEN CallOutcome(self, "InvalidFieldArgument", i, "Interface")
    ELSE CheckResolverArguments(self, resolver, i + 1)

\* StrawberryField.__call__(resolver)
StrawberryField_call(self, resolver) == CheckResolverArguments(self, resolver, 1)

CallField(resolver) ==
    /\ fn' = "StrawberryField.__call__"
    /\ fnArgs' = [field |-> NewStrawberryField, resolver |-> resolver]
    /\ fnResult' = StrawberryField_call(NewStrawberryField, resolver)
    /\ UNCHANGED <<invokeVars, convVars, annVars>>

(***************************************************************************)
(* Permission classes of a field (StrawberryField.permission_classes)       *)
(***************************************************************************)
\* inspect.isclass(annotation) and issubclass(annotation, BasePermission)
IsPermissionClass(annotation) == annotation \in PermKinds

permission_classes_explicit_only(self) == self.explicit_permission_classes

\* StrawberryField.permission_classes
permission_classes(self) ==
    SelectSeq(GetTypeAndArgs(self.type)[2], IsPermissionClass)
        \o self.explicit_permission_classes

\* The metadata lists of field types: plain values and permission classes.
TypeMetadata ==
    {<<"m">>, <<"sync">>, <<"m", "coro">>, <<"sync", "m", "deferred">>}

\* The resolved types of fields: bare, with metadata, and Optional of a type
\* with metadata.
PermissionFieldTypes ==
    {Atom("class", "str")}
    \cup {StrawberryAnnotated(Atom("class", "str"), m) : m \in TypeMetadata}
    \cup {StrawberryOptional(StrawberryAnnotated(Atom("class", "str"), m)) : m \in TypeMetadata}

\* The fields as they are declared: resolver (ResolverKinds), resolved type,
\* and the permission_classes argument.
FieldDeclarations ==
    [python_name : {"a"}, resolver : ResolverKinds, type : PermissionFieldTypes,
     explicit_permission_classes : {<<>>, <<"sync">>, <<"coro">>}]

\* The field as from_resolver reads it: python_name, base_resolver and
\* permission_classes.
AdapterField(self) ==
    [python_name |-> self.python_name, resolver |-> self.resolver,
     perms |-> permission_classes(self)]

\* from_resolver(field): the converter picks the wrapper of a declared field.
ConvertField(self) ==
    /\ fn' = "from_resolver"
    /\ fnArgs' = self
    /\ fnResult' = AdapterField(self)
    /\ UNCHANGED <<invokeVars, convVars, annVars>>

\* The annotations handed to parse_annotated, nested at most d deep: plain
\* types and forward references, Optional and Union, List, and Annotated
\* with plain metadata or a lazy-reference marker.
RECURSIVE ParsedAnnotations(_)
ParsedAnnotations(d) ==
    LET atoms == {Atom("class", "str"), Atom("objectclass", "O"), NoneType, Atom("str", "T")}
    IN  IF d = 0 THEN atoms
        ELSE LET sub == ParsedAnnotations(d - 1)
                 members == {t \in sub : t.tag # "Union" /\ t # NoneType}
             IN  atoms
                 \cup {Mk("Union", "", <<p[1], p[2]>>, <<>>) :
                          p \in {q \in (atoms \ {NoneType}) \X (atoms \ {NoneType}) :
                                    q[1] # q[2]}}
                 \cup {Mk("Union", "", <<Atom("class", "str"), Atom("objectclass", "O"), NoneType>>,
                          <<>>)}
                 \cup {Mk("Union", "", <<t, NoneType>>, <<>>) : t \in members}
                 \cup {Mk("List", "", <<t>>, <<>>) : t \in sub}
                 \cup {Mk("Annotated", "", <<t>>, m) :
                          t \in {u \in sub : u.tag # "Annotated"},
                          m \in {<<"m">>, <<"m", "n">>, <<"m", LazyMarker>>}}

\* StrawberryAnnotation.parse_annotated(annotation)
CallParseAnnotated(annotation) ==
    /\ fn' = "parse_annotated"
    /\ fnArgs' = annotation
    /\ fnResult' = parse_annotated(annotation)
    /\ UNCHANGED <<invokeVars, convVars, annVars>>

\* parse_annotated applied to what parse_annotated returned.
CallParseAnnotatedAgain ==
    /\ fn = "parse_annotated"
    /\ ~IsRaise(fnResult)
    /\ fn' = "parse_annotated twice"
    /\ fnArgs' = fnArgs
    /\ fnResult' = parse_annotated(fnResult)
    /\ UNCHANGED <<invokeVars, convVars, annVars>>

(***************************************************************************)
(* Request-time resolution of a converted field, one wrapper call a step    *)
(***************************************************************************)
\* A cached_property that was not read yet has no entry in the instance.
Missing == <<"MISSING">>

\* The StrawberryField object the converter is handed: what was declared, the
\* class attribute default_resolver, no cached property read yet.
FieldObject(self) ==
    [python_name |-> self.python_name, resolver |-> self.resolver, type |-> self.type,
     explicit_permission_classes |-> self.explicit_permission_classes,
     default_resolver |-> "getattr", cached_permission_classes |-> Missing]

\* A read of the cached property permission_classes: the first read stores
\* the list in the instance, later reads return the stored list.
ReadPermissionClasses(obj) ==
    IF obj.cached_permission_classes = Missing
    THEN [obj EXCEPT !.cached_permission_classes = permission_classes(obj)]
    ELSE obj

\* field.is_basic_field: `not self.base_resolver and not self.permission_classes`
\* reads the permission classes of a field without resolver only.
ReadIsBasicField(obj) ==
    IF obj.resolver = "none" THEN ReadPermissionClasses(obj) ELSE obj

ReadIsAsyncResolverOnly(obj) == obj

\* field.is_async: _has_async_permission_classes iterates over
\* self.permission_classes before the resolver is looked at.
ReadIsAsync(obj) == ReadPermissionClasses(obj)

\* from_resolver(field) up to the return of the wrapper: default_resolver is
\* assigned, is_basic_field is read and, for the other fields, is_async.
from_resolver(obj) ==
    LET o == ReadIsBasicField([obj EXCEPT !.default_resolver = "config.default_resolver"])
    IN  IF IsBasicField(AdapterField(o)) THEN o ELSE ReadIsAsync(o)

\* How one call of the wrapper ends: _check_permissions(_async) raises
\* PermissionError at the first permission that refuses, else the resolver (or
\* the default getter) returns or raises.
WrapperOutcome(f, verdicts, raises) ==
    LET wrapper == FromResolver(f)
        refused(i) ==
            LET r == HasPermission(f.perms[i], verdicts[i])
            IN  ~(IF wrapper = "async" THEN GrantedAsync(r) ELSE GrantedSync(r))
    IN  IF wrapper # "basic" /\ \E i \in DOMAIN f.perms : refused(i)
        THEN "PermissionError"
        ELSE IF raises THEN "raised" ELSE "returned"

\* The schema builder converts a declared field: from_field -> from_resolver.
CallFromResolver(self) ==
    /\ fn' = "from_resolver"
    /\ fnArgs' = from_resolver(FieldObject(self))
    /\ fnResult' = [wrapper |-> FromResolver(AdapterField(self)), outcome |-> "none",
                    calls |-> 0]
    /\ UNCHANGED <<invokeVars, convVars, annVars>>

\* The engine calls the wrapper of the converted field.  _get_basic_result
\* goes straight to get_result; _resolver and _async_resolver iterate over
\* field.permission_classes first.
CallWrapperOnce(raises) ==
    /\ fn \in {"from_resolver", "wrapper"}
    /\ fnResult.calls < MaxCalls
    /\ LET f == AdapterField(fnArgs) IN
       \E verdicts \in [DOMAIN f.perms -> BOOLEAN] :
          /\ fn' = "wrapper"
          /\ fnArgs' = IF fnResult.wrapper = "basic" THEN fnArgs
                       ELSE ReadPermissionClasses(fnArgs)
          /\ fnResult' = [fnResult EXCEPT !.outcome = WrapperOutcome(f, verdicts, raises),
                                          !.calls = @ + 1]
    /\ UNCHANGED <<invokeVars, convVars, annVars>>

\* The definitions the schema builder converts while requests are served.
ResolveDefs == {d \in Defs : d.kind = "scalar" /\ d.ver = 1}

(***************************************************************************)
(* Interfaces of a declared class (object_type._get_interfaces)             *)
(***************************************************************************)
\* A declared class is a strawberry interface or another strawberry type: each
\* class carries the _type_definition its own decorator stored.
ClassKinds == {"interface", "type"}

RECURSIVE Ancestors(_, _)
\* The classes reachable from the given bases through __bases__.
Ancestors(classes, bases) ==
    UNION {{bases[i]} \cup Ancestors(classes, classes[bases[i]].bases) : i \in DOMAIN bases}

\* The __bases__ a class statement can name: distinct classes declared before,
\* none of them an ancestor of a later one (Python finds no method resolution
\* order otherwise); unrelated bases are written in declaration order.
LegalBases(classes) ==
    {bases \in SeqsUpTo(1..Len(classes), MaxBases) :
        \A i, j \in DOMAIN bases :
           i < j =>
              /\ bases[i] # bases[j]
              /\ bases[i] \notin Ancestors(classes, <<bases[j]>>)
              /\ bases[j] \notin Ancestors(classes, <<bases[i]>>) => bases[i] < bases[j]}

RECURSIVE _get_interfaces(_, _)
\* _get_interfaces(cls), cls given by its __bases__: for each base, its type
\* definition when that is an interface, then everything _get_interfaces(base)
\* returns.
_get_interfaces(classes, bases) ==
    IF bases = <<>> THEN <<>>
    ELSE LET base == Head(bases) IN
         (IF classes[base].kind = "interface" THEN <<base>> ELSE <<>>)
            \o _get_interfaces(classes, classes[base].bases)
            \o _get_interfaces(classes, Tail(bases))

\* A class statement decorated with strawberry.type, strawberry.input or
\* strawberry.interface: _process_type stores _get_interfaces(cls) in the
\* type definition.
DeclareClass(bases, kind) ==
    /\ fn \in {"none", "_process_type"}
    /\ Len(fnArgs) < MaxClasses
    /\ bases \in LegalBases(fnArgs)
    /\ fn' = "_process_type"
    /\ fnArgs' = Append(fnArgs, [bases |-> bases, kind |-> kind])
    /\ fnResult' = _get_interfaces(fnArgs, bases)
    /\ UNCHANGED <<invokeVars, convVars, annVars>>

(***************************************************************************)
(* The decorators type, input and interface (object_type.py)                *)
(***************************************************************************)
\* What a decorator is applied to: a class, given by its entries, or an object
\* that is no class.
DecoratedObjects ==
    {[is_class |-> FALSE, entries |-> <<>>]}
    \cup {[is_class |-> TRUE, entries |-> cls] :
            cls \in {c \in Classes : \A i \in DOMAIN c : c[i].kind = "StrawberryField"}}

\* The outcome of a decorator call: the exception raised, or the flags of the
\* TypeDefinition stored in cls._type_definition.
Decorated(err, defined, is_input, is_interface) ==
    [err |-> err, defined |-> defined, is_input |-> is_input, is_interface |-> is_interface]

\* TypeDefinition(name=..., is_input=is_input, is_interface=is_interface, ...):
\* a dataclass that stores what it is given.
TypeDefinition(is_input, is_interface) == Decorated("none", TRUE, is_input, is_interface)

\* _process_type(cls, is_input=..., is_interface=...)
_process_type(cls, is_input, is_interface) == TypeDefinition(is_input, is_interface)

\* strawberry.type(cls, is_input=..., is_interface=...): wrap(cls) refuses an
\* object that is no class, _wrap_dataclass checks the field annotations,
\* _process_type builds the definition.
strawberry_type(cls, is_input, is_interface) ==
    IF ~cls.is_class
    THEN Decorated(IF is_input THEN "ObjectIsNotClassError.input"
                   ELSE IF is_interface THEN "ObjectIsNotClassError.interface"
                   ELSE "ObjectIsNotClassError.type", FALSE, FALSE, FALSE)
    ELSE LET checked == _check_field_annotations(cls.entries) IN
         IF checked.err # "none" THEN Decorated(checked.err, FALSE, FALSE, FALSE)
         ELSE _process_type(cls.entries, is_input, is_interface)

\* strawberry.input(cls): type(cls, ..., is_input=True)
strawberry_input(cls) == strawberry_type(cls, TRUE, FALSE)

\* strawberry.interface(cls): type(cls, ..., is_interface=True)
strawberry_interface(cls) == strawberry_type(cls, FALSE, TRUE)

CallType(cls, is_input, is_interface) ==
    /\ fn' = "type"
    /\ fnArgs' = [cls |-> cls, is_input |-> is_input, is_interface |-> is_interface]
    /\ fnResult' = strawberry_type(cls, is_input, is_interface)
    /\ UNCHANGED <<invokeVars, convVars, annVars>>

CallInput(cls) ==
    /\ fn' = "input"
    /\ fnArgs' = [cls |-> cls, is_input |-> FALSE, is_interface |-> FALSE]
    /\ fnResult' = strawberry_input(cls)
    /\ UNCHANGED <<invokeVars, convVars, annVars>>

CallInterface(cls) ==
    /\ fn' = "interface"
    /\ fnArgs' = [cls |-> cls, is_input |-> FALSE, is_interface |-> FALSE]
    /\ fnResult' = strawberry_interface(cls)
    /\ UNCHANGED <<invokeVars, convVars, annVars>>

(***************************************************************************)
(* The life of a field: construction and the ways to attach a resolver      *)
(***************************************************************************)
\* The resolvers attached during the life of one field.
LifeResolvers == {resolver \in Resolvers : Len(resolver) <= 1}

\* The base_resolver argument of the constructor: None or a resolver.
ResolverNotGiven == [given |-> FALSE, resolver |-> <<>>]

GivenResolver(resolver) == [given |-> TRUE, resolver |-> resolver]

\* StrawberryField.__init__(base_resolver=...): is_basic_field = not
\* base_resolver is handed to dataclasses.Field as init, repr and compare; a
\* resolver that was given goes through the base_resolver setter.
StrawberryField_init(base_resolver) ==
    LET is_basic_field == ~base_resolver.given
        self == [base_resolver |-> <<>>, has_resolver |-> FALSE,
                 init |-> is_basic_field, repr |-> is_basic_field,
                 compare |-> is_basic_field]
    IN  IF base_resolver.given THEN SetBaseResolver(self, base_resolver.resolver)
        ELSE self

\* What an operation on the field was given and how it ended: the resolver,
\* the exception raised and the field as it was before.
LifeStep(base_resolver, err, before) ==
    [base_resolver |-> base_resolver, err |-> err, before |-> before]

LifeOperations == {"StrawberryField", "__call__", "base_resolver.setter"}

\* field = StrawberryField(base_resolver=...): a new field replaces the one
\* followed so far.
ConstructField(base_resolver) ==
    /\ fn' = "StrawberryField"
    /\ fnArgs' = LifeStep(base_resolver, "none", StrawberryField_init(base_resolver))
    /\ fnResult' = StrawberryField_init(base_resolver)
    /\ UNCHANGED <<invokeVars, convVars, annVars>>

\* field(resolver): the field is called as a decorator.
DecorateResolver(resolver) ==
    /\ fn \in LifeOperations
    /\ LET outcome == StrawberryField_call(fnResult, resolver) IN
       /\ fn' = "__call__"
       /\ fnArgs' = LifeStep(GivenResolver(resolver), outcome.err, fnResult)
       /\ fnResult' = outcome.field
    /\ UNCHANGED <<invokeVars, convVars, annVars>>

\* field.base_resolver = resolver
AssignBaseResolver(resolver) ==
    /\ fn \in LifeOperations
    /\ fn' = "base_resolver.setter"
    /\ fnArgs' = LifeStep(GivenResolver(resolver), "none", fnResult)
    /\ fnResult' = SetBaseResolver(fnResult, resolver)
    /\ UNCHANGED <<invokeVars, convVars, annVars>>

(***************************************************************************)
(* Argument binding of a resolver call (from_resolver._get_arguments)       *)
(***************************************************************************)
\* The source object and the Info of an invocation, as values a resolver
\* can receive.
SourceVal(source) == Val("source", <<>>, <<source>>)

InfoVal == Val("Info", <<>>, <<"info">>)

\* The arguments a resolver can declare, in the order of its signature.
BindingArguments ==
    <<Declared("first_arg", "firstArg", Atom("class", "str"), ValUnset),
      Declared("second", "second", StrawberryOptional(Atom("class", "str")), ValUnset),
      Declared("third", "third", Atom("class", "str"), ValUnset)>>

\* The resolvers as _get_arguments sees them: whether there is a self
\* parameter, the names of the root and info parameters ("none" when absent)
\* and the declared arguments.
BoundResolvers ==
    [self_parameter : BOOLEAN, root_parameter : {"none", "root"},
     info_parameter : {"none", "info", "ctx"},
     arguments : {SubSeq(BindingArguments, 1, n) : n \in 0..MaxArguments}]

\* The keyword arguments of a request: any of the public argument names and a
\* key no argument declares.
RequestKeys == <<"firstArg", "second", "third", "other">>

RequestKwargs ==
    {LET names == SelectSeq(RequestKeys, LAMBDA k : k \in S)
     IN  ValMapping(names, [i \in DOMAIN names |->
                               IF names[i] = "second" THEN ValNone
                               ELSE ValScalar(names[i])]) :
        S \in SUBSET {RequestKeys[i] : i \in DOMAIN RequestKeys}}

\* kwargs[name] = v on the dictionary convert_arguments returned.
DictSet(kwargs, name, v) ==
    IF \E i \in DOMAIN kwargs.names : kwargs.names[i] = name
    THEN [kwargs EXCEPT !.items[CHOOSE i \in DOMAIN kwargs.names : kwargs.names[i] = name] = v]
    ELSE [kwargs EXCEPT !.items = Append(@, v), !.names = Append(@, name)]

SelfArgsAlways(base_resolver, source) == <<SourceVal(source)>>

\* args = []; if field.base_resolver.self_parameter: args.append(source)
SelfArgs(base_resolver, source) ==
    IF base_resolver.self_parameter THEN <<SourceVal(source)>> ELSE <<>>

\* _get_arguments(source, info, kwargs) of a field with a resolver: the
\* converted arguments, then the root and info parameters by keyword.
_get_arguments(base_resolver, source, kwargs) ==
    LET converted == convert_arguments(kwargs, base_resolver.arguments)
        with_root == IF base_resolver.root_parameter # "none"
                     THEN DictSet(converted, base_resolver.root_parameter, SourceVal(source))
                     ELSE converted
        with_info == IF base_resolver.info_parameter # "none"
                     THEN DictSet(with_root, base_resolver.info_parameter, InfoVal)
                     ELSE with_root
    IN  IF IsValRaise(converted) THEN [args |-> <<>>, kwargs |-> converted]
        ELSE [args |-> SelfArgs(base_resolver, source), kwargs |-> with_info]

\* _get_result: the arguments field.get_result is called with.
CallGetArguments(base_resolver, source, kwargs) ==
    /\ fn' = "_get_arguments"
    /\ fnArgs' = [base_resolver |-> base_resolver, source |-> source, kwargs |-> kwargs]
    /\ fnResult' = _get_arguments(base_resolver, source, kwargs)
    /\ UNCHANGED <<invokeVars, convVars, annVars>>

(***************************************************************************)
(* Description resolution (GraphQLCoreConverter._get_description)           *)
(***************************************************************************)
\* The description sources that can yield something for a field, in the order
\* in which gen_candidates goes through them.
DescriptionFlags ==
    <<"STRAWBERRY_DESCRIPTIONS", "RESOLVER_DOCSTRINGS", "TYPE_ATTRIBUTE_DOCSTRINGS",
      "TYPE_DOCSTRINGS">>

\* A description-source setting as the caller enumerates it:
\* FLAG_1 | FLAG_2 | ... with distinct flags.
SourceSettings ==
    {s \in SeqsUpTo({DescriptionFlags[i] : i \in DOMAIN DescriptionFlags}, MaxSources) :
        \A i, j \in DOMAIN s : s[i] = s[j] => i = j}

\* description_sources=None: the element has no setting of its own.
NoSetting == <<"None">>

NoDescription == "None"

EnabledAlways(sources, flag) == TRUE

\* `sources & DescriptionSources.FLAG`: flags combined with | form a set.
Enabled(sources, flag) == \E i \in DOMAIN sources : sources[i] = flag

\* A Docstring object by what its accessors return: main_description,
\* attribute_docstring(child_name) and child_description(child_name).
Docstring(main_description, attribute_docstring, child_description) ==
    [given |-> TRUE, main_description |-> main_description,
     attribute_docstring |-> attribute_docstring, child_description |-> child_description]

\* No Docstring object (None).
NoDocstring ==
    [given |-> FALSE, main_description |-> NoDescription,
     attribute_docstring |-> NoDescription, child_description |-> NoDescription]

\* gen_candidates(): the candidates in the order they are yielded.  The enum
\* and directive sources yield nothing when their docstrings are not passed.
gen_candidates(sources, description, type_docstring, parent_type_docstring, resolver_docstring, parent_resolver_docstring) ==
    (IF Enabled(sources, "STRAWBERRY_DESCRIPTIONS") THEN <<description>> ELSE <<>>)
    \o (IF Enabled(sources, "RESOLVER_DOCSTRINGS")
        THEN (IF resolver_docstring.given
              THEN <<resolver_docstring.main_description>> ELSE <<>>)
             \o (IF parent_resolver_docstring.given
                 THEN <<parent_resolver_docstring.child_description>> ELSE <<>>)
        ELSE <<>>)
    \o (IF Enabled(sources, "TYPE_ATTRIBUTE_DOCSTRINGS") /\ parent_type_docstring.given
        THEN <<parent_type_docstring.attribute_docstring>> ELSE <<>>)
    \o (IF Enabled(sources, "TYPE_DOCSTRINGS")
        THEN (IF type_docstring.given THEN <<type_docstring.main_description>> ELSE <<>>)
             \o (IF parent_type_docstring.given
                 THEN <<parent_type_docstring.child_description>> ELSE <<>>)
        ELSE <<>>)

\* for candidate in gen_candidates(): if candidate is not None: return candidate
FirstCandidate(candidates) ==
    IF \A i \in DOMAIN candidates : candidates[i] = NoDescription THEN NoDescription
    ELSE candidates[CHOOSE i \in DOMAIN candidates :
                       /\ candidates[i] # NoDescription
                       /\ \A j \in 1..(i - 1) : candidates[j] = NoDescription]

\* _get_description(sources=..., description=..., ...)
_get_description(sources, description, type_docstring, parent_type_docstring, resolver_docstring, parent_resolver_docstring) ==
    FirstCandidate(gen_candidates(sources, description, type_docstring,
                                  parent_type_docstring, resolver_docstring,
                                  parent_resolver_docstring))

\* pick_not_none(a, b): the first argument that is not None.
pick_not_none(a, b) == IF a # NoSetting THEN a ELSE b

\* The fields whose description is resolved: the setting of the field, its
\* explicit description and the docstring of its resolver.
DescribedFields ==
    [description_sources : {NoSetting} \cup SourceSettings,
     description : {NoDescription, "explicit"},
     resolver_docstring : {NoDocstring, Docstring(NoDescription, NoDescription, NoDescription),
                           Docstring("resolver", NoDescription, NoDescription)}]

\* The docstring of the type the field belongs to.
ParentDocstrings ==
    {NoDocstring}
    \cup {Docstring(NoDescription, a, c) :
             a \in {NoDescription, "attribute"}, c \in {NoDescription, "child"}}

\* The description part of from_field(field, description_sources,
\* parent_type_docstring).
from_field_description(field, description_sources, parent_type_docstring) ==
    _get_description(pick_not_none(field.description_sources, description_sources),
                     field.description, NoDocstring, parent_type_docstring,
                     field.resolver_docstring, NoDocstring)

CallFromField(field, description_sources, parent_type_docstring) ==
    /\ fn' = "from_field"
    /\ fnArgs' = [field |-> field, description_sources |-> description_sources,
                  parent_type_docstring |-> parent_type_docstring]
    /\ fnResult' = from_field_description(field, description_sources, parent_type_docstring)
    /\ UNCHANGED <<invokeVars, convVars, annVars>>

(***************************************************************************)
(* Several fields resolved concurrently                                     *)
(***************************************************************************)
\* The engine calls the wrappers of several fields and the event loop resumes
\* the suspended ones in any order; all of them share one context, the least
\* favourable case for current_info.  fnArgs holds one task per invocation in
\* flight (the slot of an invocation that ended is free again) and fnResult is
\* <<the slot of the task that runs>>, 0 when none runs and the loop picks.  A
\* task keeps what its frames keep: the permission classes still to check, the
\* resolver, the token of get_result.  Its pc:
\*   "free"     no invocation
\*   "start"    the coroutine of _async_resolver was created, not yet run
\*   "perm"     the permission loop is about to call has_permission
\*   "permwait" suspended in `await await_maybe(has_permission(...))`
\*   "set"      in _get_result, before current_info.set(info)
\*   "call"     in get_result after current_info.set(info)
\*   "reset"    in get_result, the resolver call returned, `finally` is next
\*   "await"    suspended in `await await_maybe(_get_result(...))`
\*   "body"     the body of the awaited asynchronous resolver runs
ConcFields == {f \in NestFields : f.python_name = "a"}

FreeTask ==
    [resolver |-> "none", wrapper |-> "basic", perms |-> <<>>, token |-> UnsetInfo,
     pc |-> "free"]

Tasks == IF fn = "none" THEN [t \in 1..MaxTasks |-> FreeTask] ELSE fnArgs

Running == IF fn = "none" THEN 0 ELSE fnResult[1]

InFlight == {t \in 1..MaxTasks : Tasks[t].pc # "free"}

\* The info a task hands to get_result: _get_basic_result passes None, the
\* other wrappers the Info they built for this invocation.
TaskInfo(t) == IF Tasks[t].wrapper = "basic" THEN NoneInfo ELSE MkInfo(t)

\* The Info objects of the invocations in flight.
InfosInFlight == {TaskInfo(t) : t \in InFlight} \ {NoneInfo}

NewTask(f) ==
    [ resolver |-> f.resolver, wrapper |-> FromResolver(f), perms |-> f.perms,
      token |-> UnsetInfo,
      pc |-> IF FromResolver(f) = "async" THEN "start"
             ELSE IF f.perms = <<>> THEN "set" ELSE "perm" ]

ConcStep(tasks, running, cur) ==
    /\ fn' = "resolve"
    /\ fnArgs' = tasks
    /\ fnResult' = <<running>>
    /\ current_info' = cur
    /\ UNCHANGED <<stack, frame, convVars, annVars>>

\* Where a task goes when the permission it checked granted.
AfterPermission(task) ==
    [task EXCEPT !.perms = Tail(@),
                 !.pc = IF Tail(task.perms) = <<>> THEN "set" ELSE "perm"]

\* The engine calls the wrapper of a field.  Calling _async_resolver only
\* creates its coroutine; _get_basic_result and _resolver start to run.
StartField(f) ==
    /\ Running = 0
    /\ InFlight # 1..MaxTasks
    /\ LET t == CHOOSE n \in 1..MaxTasks : n \notin InFlight /\ \A m \in 1..(n - 1) : m \in InFlight IN
       ConcStep([Tasks EXCEPT ![t] = NewTask(f)],
                IF FromResolver(f) = "async" THEN 0 ELSE t, current_info)

\* The event loop starts the coroutine of _async_resolver: the Info is built
\* and the permission loop is next.
StartCoroutine(t) ==
    /\ Running = 0
    /\ Tasks[t].pc = "start"
    /\ ConcStep([Tasks EXCEPT ![t].pc = IF Tasks[t].perms = <<>> THEN "set" ELSE "perm"],
                t, current_info)

\* The event loop resumes _check_permissions_async: the awaited has_permission
\* (an async def has_permission runs its body now) hands back its verdict g.
ResumePermission(t, g) ==
    /\ Running = 0
    /\ Tasks[t].pc = "permwait"
    /\ IF GrantedAsync(HasPermission(Head(Tasks[t].perms), g))
       THEN ConcStep([Tasks EXCEPT ![t] = AfterPermission(Tasks[t])], t, current_info)
       ELSE ConcStep([Tasks EXCEPT ![t] = FreeTask], 0, current_info)

\* The event loop resumes _async_resolver: the awaited resolver starts its body.
ResumeResolver(t) ==
    /\ Running = 0
    /\ Tasks[t].pc = "await"
    /\ ConcStep([Tasks EXCEPT ![t].pc = "body"], t, current_info)

\* One iteration of _check_permissions / _check_permissions_async in the
\* running task: has_permission is called, and _check_permissions_async
\* suspends when it handed back an awaitable.
CheckPermissionOf(g) ==
    /\ Running # 0
    /\ Tasks[Running].pc = "perm"
    /\ LET t == Running
           task == Tasks[t]
           r == HasPermission(Head(task.perms), g)
       IN IF task.wrapper = "async" /\ r.deferred
          THEN ConcStep([Tasks EXCEPT ![t].pc = "permwait"], 0, current_info)
          ELSE IF (IF task.wrapper = "async" THEN GrantedAsync(r) ELSE GrantedSync(r))
          THEN ConcStep([Tasks EXCEPT ![t] = AfterPermission(task)], t, current_info)
          ELSE ConcStep([Tasks EXCEPT ![t] = FreeTask], 0, current_info)

\* get_result: old_info = current_info.set(info).
SetCurrentInfo ==
    /\ Running # 0
    /\ Tasks[Running].pc = "set"
    /\ LET t == Running
           s == InfoSet(current_info, TaskInfo(t))
       IN ConcStep([Tasks EXCEPT ![t].pc = "call", ![t].token = s.token], t, s.value)

\* get_result: self.base_resolver(*args, **kwargs) or the default getter.  A
\* synchronous resolver runs its body here; an asynchronous one only hands
\* back its coroutine.  get_result is a plain function: nothing is awaited.
CallBaseResolver ==
    /\ Running # 0
    /\ Tasks[Running].pc = "call"
    /\ ConcStep([Tasks EXCEPT ![Running].pc = "reset"], Running, current_info)

\* get_result: `finally: current_info.reset(old_info)`, then the wrapper
\* returns, or _async_resolver awaits the coroutine it got.
ResetCurrentInfo ==
    /\ Running # 0
    /\ Tasks[Running].pc = "reset"
    /\ LET t == Running
           task == Tasks[t]
       IN ConcStep(IF task.wrapper = "async" /\ task.resolver = "async"
                   THEN [Tasks EXCEPT ![t].pc = "await", ![t].token = UnsetInfo]
                   ELSE [Tasks EXCEPT ![t] = FreeTask],
                   0, InfoReset(current_info, task.token))

\* The body of the awaited asynchronous resolver runs to its end.
RunResolverBody ==
    /\ Running # 0
    /\ Tasks[Running].pc = "body"
    /\ ConcStep([Tasks EXCEPT ![Running] = FreeTask], 0, current_info)

(***************************************************************************)
(* StrawberryField.copy_with (field.py)                                     *)
(***************************************************************************)
\* The keyword arguments of StrawberryField(...) a copied field was made from.
\* None and dataclasses.MISSING are the strings "None" and "MISSING".
CopiedTypes ==
    {Atom("objectclass", "O"), Atom("objectclass", GenericObject), Atom("class", "str"),
     StrawberryOptional(Atom("TypeVar", "V")),
     StrawberryAnnotated(Atom("TypeVar", "V"), <<"sync">>)}

CopiedFieldArguments ==
    {kw \in [python_name : {"a"}, graphql_name : {"None", "g"}, type : CopiedTypes,
             origin : {"Query"}, is_subscription : BOOLEAN,
             description_sources : {"None", "STRAWBERRY_DESCRIPTIONS"},
             description : {"None", "text"}, base_resolver : {"None", "resolver"},
             permission_classes : {<<>>, <<"coro">>},
             default : {"MISSING", "v"}, default_factory : {"MISSING", "factory"},
             metadata : {{}, {"k"}}, deprecation_reason : {"None", "old"},
             directives : {<<>>, <<"directive">>}] :
        kw.default = "MISSING" \/ kw.default_factory = "MISSING"}

\* The defaults of the parameters of __init__.
FieldDefaults ==
    [graphql_name |-> "None", is_subscription |-> FALSE, description_sources |-> "None",
     description |-> "None", base_resolver |-> "None", permission_classes |-> <<>>,
     default |-> "MISSING", default_factory |-> "MISSING", metadata |-> {},
     deprecation_reason |-> "None", directives |-> <<>>]

\* StrawberryField.__init__: the attributes it stores.  default_value is the
\* default, or what a callable default_factory makes.
StrawberryField(kw) ==
    [python_name |-> kw.python_name, graphql_name |-> kw.graphql_name, type |-> kw.type,
     origin |-> kw.origin, is_subscription |-> kw.is_subscription,
     description_sources |-> kw.description_sources, description |-> kw.description,
     base_resolver |-> kw.base_resolver,
     explicit_permission_classes |-> kw.permission_classes,
     default |-> kw.default, default_factory |-> kw.default_factory,
     default_value |-> IF kw.default_factory # "MISSING" THEN "made" ELSE kw.default,
     metadata |-> kw.metadata, deprecation_reason |-> kw.deprecation_reason,
     directives |-> kw.directives]

\* hasattr(self.type, "_type_definition")
HasTypeDefinition(type_) == type_.tag = "objectclass"

\* type_definition.is_generic
IsGenericDefinition(type_) == type_.name = GenericObject

\* isinstance(self.type, StrawberryType)
IsStrawberryType(type_) ==
    type_.tag \in {"StrawberryOptional", "StrawberryList", "StrawberryAnnotated", "TypeVar"}

RECURSIVE TypeCopyWith(_, _)
\* StrawberryType.copy_with / TypeDefinition.copy_with: the type with its type
\* variables replaced, wrappers and their metadata kept.
TypeCopyWith(type_, type_var_map) ==
    IF type_.tag = "TypeVar" THEN type_var_map
    ELSE IF type_.tag = "objectclass" THEN Mk("objectclass", type_.name, <<type_var_map>>, <<>>)
    ELSE Mk(type_.tag, type_.name,
            [i \in DOMAIN type_.args |-> TypeCopyWith(type_.args[i], type_var_map)],
            type_.meta)

\* What copy_with hands back: the exception it raised ("none" when it
\* returned) and the new field.
Copied(err, new) == <<err, new>>

\* StrawberryField.copy_with(type_var_map).  new_type is assigned for a generic
\* type definition and for a StrawberryType only; the constructor is called
\* with eleven of its keyword arguments.
copy_with(self, type_var_map) ==
    IF HasTypeDefinition(self.type) /\ ~IsGenericDefinition(self.type)
    THEN Copied("UnboundLocalError", <<>>)
    ELSE IF ~HasTypeDefinition(self.type) /\ ~IsStrawberryType(self.type)
    THEN Copied("AssertionError", <<>>)
    ELSE Copied("none",
            StrawberryField(
               [FieldDefaults EXCEPT
                  !.graphql_name = self.graphql_name,
                  !.is_subscription = self.is_subscription,
                  !.description = self.description,
                  !.base_resolver = IF self.base_resolver # "None"
                                    THEN "resolver.copy_with" ELSE "None",
                  !.permission_classes = permission_classes(self),
                  !.default = self.default_value,
                  !.default_factory = self.default_factory,
                  !.deprecation_reason = self.deprecation_reason]
               @@ [python_name |-> self.python_name,
                   type |-> TypeCopyWith(self.type, type_var_map),
                   origin |-> self.origin]))

\* new = field.copy_with(type_var_map) on a field built by the constructor;
\* fnArgs keeps the field as it was before and as it is after the call.
CallCopyWith(kw, type_var_map) ==
    /\ fn' = "copy_with"
    /\ fnArgs' = <<StrawberryField(kw), StrawberryField(kw)>>
    /\ fnResult' = copy_with(StrawberryField(kw), type_var_map)
    /\ UNCHANGED <<invokeVars, convVars, annVars>>

InvokeInit ==
    /\ current_info = UnsetInfo
    /\ stack = <<>>
    /\ frame = IdleFrame

Init ==
    /\ InvokeInit
    /\ ConvIdle
    /\ AnnIdle
    /\ FnIdle

\* The execution engine invokes the wrappers of any fields, one after another.
Next ==
    \/ \E f \in Fields, src \in Sources, req \in SUBSET ArgNames :
          stack = <<>> /\ CallBasic(f, src, req)
    \/ \E f \in Fields, src \in Sources, req \in SUBSET ArgNames :
          stack = <<>> /\ CallWrapper(f, src, req)
    \/ \E g \in BOOLEAN : CheckPermission(g)
    \/ GetResult
    \/ ReturnBody
    \/ RaiseBody
    \/ \E raises \in BOOLEAN : FinishAwait(raises)

Spec == Init /\ [][Next]_vars

\* Resolvers and getters invoke the wrappers of further fields while they run.
NextNest ==
    \/ \E f \in NestFields, src \in Sources : CallBasic(f, src, {})
    \/ \E f \in NestFields, src \in Sources : CallWrapper(f, src, {})
    \/ \E g \in BOOLEAN : CheckPermission(g)
    \/ GetResult
    \/ ReturnBody
    \/ RaiseBody
    \/ \E raises \in BOOLEAN : FinishAwait(raises)

SpecNest == Init /\ [][NextNest]_vars

ConvNext ==
    \/ \E d \in Defs : \E deps \in SeqsUpTo(DepCandidates(d), MaxRefs) : Request(d, deps)
    \/ \E n \in pending : \E refs \in SeqsUpTo(RefCandidates(n.gkind), MaxRefs) :
          ForceThunk(n, refs)

SpecConv == Init /\ [][ConvNext]_vars

\* The definitions and the values of f.type the field lists with unresolved
\* and private fields are drawn from.
ThunkDefs == {d \in Defs : d.ver = 1 /\ d.kind \in {"object", "scalar", "enum"}}

ThunkFieldTypes == ThunkDefs \cup {UnresolvedType, PrivateType}

\* The schema builder converts types and graphql-core forces their field
\* lists while some forward references are still unresolved.
ThunkNext ==
    \/ \E d \in ThunkDefs : Request(d, <<>>)
    \/ \E n \in pending : \E refs \in SeqsUpTo(ThunkFieldTypes, MaxFields) :
          ForceThunk(n, refs)

SpecThunk == Init /\ [][ThunkNext]_vars

AnnNext ==
    \/ /\ decl = "idle"
       /\ \E a \in Annotations(MaxNest) : \E b \in Bindings \cup {Undefined} : Annotate(a, b)
    \/ \E b \in Bindings : DefineName(b)
    \/ ResolveAnnotation
    \/ ResolveAgain

SpecAnn == Init /\ [][AnnNext]_vars

FieldNext ==
    \/ /\ decl = "idle"
       /\ \E a \in FieldAnnotations : \E w \in BOOLEAN : \E rt \in ResolverTypes :
             \E b \in Bindings \cup {Undefined} : DeclareField(a, w, rt, b)
    \/ \E b \in Bindings : DefineName(b)
    \/ ReadType

SpecField == Init /\ [][FieldNext]_vars

EnumNext ==
    \/ \E enum \in EnumDefinitions : \E v \in OutputValues(enum) : CallSerialize(enum, v)
    \/ \E enum \in EnumDefinitions : \E s \in Identifiers : CallParseValue(enum, StrVal(s))
    \/ \E enum \in EnumDefinitions : \E s \in Identifiers :
          \E value_node \in {EnumValueNode(s), StringValueNode(s)} :
             CallParseLiteral(enum, value_node)
    \/ \E literal \in BOOLEAN : CallParseSerialized(literal)

SpecEnum == Init /\ [][EnumNext]_vars

NullableNext ==
    \E type_ \in ResolvedTypes(MaxWrap) : \E none_is_scalar \in BOOLEAN :
        CallFromMaybeOptional(type_, none_is_scalar)

SpecNullable == Init /\ [][NullableNext]_vars

ArgumentsNext ==
    \E arguments \in ArgumentLists : \E value \in Mappings(arguments, ValuesOf) :
        CallConvertArguments(arguments, value)

SpecArguments == Init /\ [][ArgumentsNext]_vars

StrawberryArgumentNext ==
    \E graphql_name \in {"None", "nameGiven"} : \E annotation \in ArgumentAnnotations :
        CallStrawberryArgument(graphql_name, annotation)

SpecStrawberryArgument == Init /\ [][StrawberryArgumentNext]_vars

DeclareNext == \E cls \in Classes : CallWrap(cls)

SpecDeclare == Init /\ [][DeclareNext]_vars

AttachNext == \E resolver \in Resolvers : CallField(resolver)

SpecAttach == Init /\ [][AttachNext]_vars

\* Fields are converted, and the execution engine invokes the wrapper of the
\* field converted last.
PermissionNext ==
    \/ /\ stack = <<>> /\ frame.pc \in {"idle", "done"}
       /\ \E self \in FieldDeclarations : ConvertField(self)
    \/ fn = "from_resolver" /\ stack = <<>> /\ CallBasic(fnResult, "s1", {})
    \/ fn = "from_resolver" /\ stack = <<>> /\ CallWrapper(fnResult, "s1", {})
    \/ \E g \in BOOLEAN : CheckPermission(g)
    \/ GetResult
    \/ ReturnBody
    \/ RaiseBody
    \/ \E raises \in BOOLEAN : FinishAwait(raises)

SpecPermission == Init /\ [][PermissionNext]_vars

ParseNext ==
    \/ \E annotation \in ParsedAnnotations(MaxNest) : CallParseAnnotated(annotation)
    \/ CallParseAnnotatedAgain

SpecParse == Init /\ [][ParseNext]_vars

ResolveNext ==
    \/ \E d \in ResolveDefs : Request(d, <<>>)
    \/ \E self \in FieldDeclarations : CallFromResolver(self)
    \/ \E raises \in BOOLEAN : CallWrapperOnce(raises)

SpecResolve == Init /\ [][ResolveNext]_vars

InterfacesNext ==
    \E kind \in ClassKinds : \E bases \in SeqsUpTo(1..MaxClasses, MaxBases) :
       DeclareClass(bases, kind)

SpecInterfaces == Init /\ [][InterfacesNext]_vars

DecoratorNext ==
    \/ \E cls \in DecoratedObjects : \E is_input, is_interface \in BOOLEAN :
          CallType(cls, is_input, is_interface)
    \/ \E cls \in DecoratedObjects : CallInput(cls)
    \/ \E cls \in DecoratedObjects : CallInterface(cls)

SpecDecorator == Init /\ [][DecoratorNext]_vars

LifeNext ==
    \/ \E base_resolver \in {ResolverNotGiven} \cup {GivenResolver(r) : r \in LifeResolvers} :
          ConstructField(base_resolver)
    \/ \E resolver \in LifeResolvers : DecorateResolver(resolver)
    \/ \E resolver \in LifeResolvers : AssignBaseResolver(resolver)

SpecLife == Init /\ [][LifeNext]_vars

BindNext ==
    \E base_resolver \in BoundResolvers : \E kwargs \in RequestKwargs :
       CallGetArguments(base_resolver, "s1", kwargs)

SpecBind == Init /\ [][BindNext]_vars

\* One field is converted in a behaviour: the result depends on nothing but
\* what the call is given.
DescribeNext ==
    /\ fn = "none"
    /\ \E field \in DescribedFields : \E description_sources \in SourceSettings :
          \E parent_type_docstring \in ParentDocstrings :
             CallFromField(field, description_sources, parent_type_docstring)

SpecDescribe == Init /\ [][DescribeNext]_vars

\* The engine calls the wrappers of fields while fewer than MaxTasks
\* invocations are in flight; the running task goes on until it suspends or
\* ends, and then the loop picks any suspended one.
ConcurrentNext ==
    \/ \E f \in ConcFields : StartField(f)
    \/ \E t \in 1..MaxTasks : StartCoroutine(t)
    \/ \E t \in 1..MaxTasks, g \in BOOLEAN : ResumePermission(t, g)
    \/ \E t \in 1..MaxTasks : ResumeResolver(t)
    \/ \E g \in BOOLEAN : CheckPermissionOf(g)
    \/ SetCurrentInfo
    \/ CallBaseResolver
    \/ ResetCurrentInfo
    \/ RunResolverBody

SpecConcurrent == Init /\ [][ConcurrentNext]_vars

CopyNext ==
    /\ fn = "none"
    /\ \E kw \in CopiedFieldArguments :
       \E type_var_map \in {Atom("class", "str"), Atom("objectclass", "O")} :
          CallCopyWith(kw, type_var_map)

SpecCopy == Init /\ [][CopyNext]_vars

(***************************************************************************)
(* Claims about the resolver invocation adapter                             *)
(***************************************************************************)
\* The value current_info must hold: the info passed to the innermost
\* get_result call still in progress, the never-set state when there is none.
ExpectedInfo(st) ==
    LET inside == {i \in 1..Len(st) : st[i].pc = "body"} IN
    IF inside = {} THEN UnsetInfo
    ELSE st[CHOOSE i \in inside : \A j \in inside : j <= i].info

\* C1: every get_result call, returning or raising, leaves current_info as it
\* was immediately before the call (the never-set state included), so at any
\* nesting depth current_info is the Info of the innermost get_result call still
\* in progress: an outer resolver reads its own Info again once the inner call
\* has completed.
C1_ContextRestored ==
    /\ current_info = ExpectedInfo(stack)
    /\ (frame.inGetResult /\ frame.pc \in {"await", "done"}) => frame.after = frame.before

\* An inner invocation raised inside get_result while an outer resolver runs,
\* and the outer resolver reads its own Info again.
C1_Witness ==
    /\ Len(stack) = 1
    /\ stack[1].pc = "body"
    /\ stack[1].info # NoneInfo
    /\ frame.pc = "done"
    /\ frame.inGetResult
    /\ frame.outcome = "raised"
    /\ GetInfo(current_info) = stack[1].info

\* The permission whose has_permission result was false for this invocation:
\* a returned False, or, under the asynchronous wrapper, an awaited False.
DeniedAt(fr) ==
    IF fr.falseAt # 0 THEN fr.falseAt
    ELSE IF fr.wrapper = "async" THEN fr.deferredFalseAt
    ELSE 0

\* C2: in a non-basic wrapper invocation the arguments are converted and the
\* resolver / getter is called only after every permission check has finished
\* with a true result; a false result ends the invocation with PermissionError
\* carrying that permission's message, and the resolver / getter is never called.
C2_PermissionsBeforeResolver ==
    frame.wrapper # "basic" =>
        /\ (frame.converted \/ frame.resolverCalled \/ frame.getterCalled) =>
               /\ frame.permChecks = Len(frame.field.perms)
               /\ DeniedAt(frame) = 0
        /\ DeniedAt(frame) # 0 =>
               /\ frame.pc = "done"
               /\ frame.outcome = "PermissionError"
               /\ frame.error = Message(DeniedAt(frame))
               /\ ~frame.converted
               /\ ~frame.resolverCalled
               /\ ~frame.getterCalled

\* The second of two permissions returned False: PermissionError, no resolver.
C2_Witness ==
    /\ frame.pc = "done"
    /\ frame.wrapper = "sync"
    /\ frame.permChecks = 2
    /\ frame.falseAt = 2
    /\ frame.outcome = "PermissionError"

\* C3: a has_permission result that is an awaitable resolving to False denies
\* access like a returned False, under the synchronous and the asynchronous
\* wrapper alike: PermissionError is raised and the resolver is not run.
C3_DeferredFalseDenies ==
    frame.deferredFalseAt # 0 =>
        /\ frame.pc = "done"
        /\ frame.outcome = "PermissionError"
        /\ ~frame.resolverCalled
        /\ ~frame.getterCalled

\* C4: from_resolver returns the asynchronous wrapper exactly when the base
\* resolver is asynchronous or some permission class has a coroutine
\* has_permission; every other invocation runs without a suspension point.
C4_AsyncIffAsyncParts ==
    frame.pc # "idle" =>
        /\ frame.wrapper = "async" <=>
               \/ frame.field.resolver = "async"
               \/ \E i \in DOMAIN frame.field.perms : frame.field.perms[i] = "coro"
        /\ frame.wrapper # "async" => frame.suspensions = 0

\* A field made asynchronous by a permission class alone has resolved.
C4_Witness ==
    /\ frame.pc = "done"
    /\ frame.wrapper = "async"
    /\ frame.field.resolver = "sync"
    /\ frame.outcome = "returned"
    /\ frame.suspensions > 0

\* C5: for a field with no resolver and no permission classes the wrapper builds
\* no Info, converts no arguments and checks no permission; for every source and
\* whatever arguments were passed it calls get_result with info=None and returns
\* default_resolver(source, python_name).
C5_BasicFieldFastPath ==
    (frame.pc # "idle" /\ frame.field.resolver = "none" /\ frame.field.perms = <<>>) =>
        /\ ~frame.infoBuilt
        /\ ~frame.converted
        /\ frame.permChecks = 0
        /\ frame.passedInfo = NoneInfo
        /\ frame.passedKwargs = {}
        /\ frame.pc = "body" => current_info = NoneInfo
        /\ frame.outcome = "returned" =>
               frame.result = DefaultResolver(frame.source, frame.field.python_name)

\* A basic field was resolved although the engine passed an argument.
C5_Witness ==
    /\ frame.pc = "done"
    /\ frame.field.resolver = "none"
    /\ frame.field.perms = <<>>
    /\ frame.request # {}
    /\ frame.source = "s2"
    /\ frame.outcome = "returned"

(***************************************************************************)
(* Claims about the schema converter                                        *)
(***************************************************************************)
\* C6: for every kind of named type, requesting a name that type_map already
\* holds with a definition different from the registered one fails with an
\* error; the node of the first definition is never returned for it.
C6_ConflictingDefinitionRejected == conflict # "silent"

\* What is left to do: names not yet registered count twice, unforced thunks once.
Measure ==
    2 * Cardinality({n \in TypeNames : type_map[n] = NoEntry}) + Cardinality(pending)

\* C7: with types whose fields refer to each other in cycles, every definition
\* is built at most once, the name of every node with a deferred field list is
\* in type_map before the list is forced, and every forcing that does not raise
\* strictly decreases a natural-number measure, so forcing all thunks terminates.
C7_BuiltOnceAndTerminates ==
    /\ [](\A d \in Defs : built[d] <= 1)
    /\ [](\A n \in pending : type_map[n.of.name] # NoEntry /\ built[n.of] = 1)
    /\ [][(convStep' = "force" /\ convErr' = "none") => Measure' < Measure]_vars

\* Both names hold types with field lists, the last thunk was forced, and its
\* fields named a type that was registered before: a cycle was closed.
C7_Witness ==
    /\ convStep = "force"
    /\ convErr = "none"
    /\ backRef
    /\ pending = {}
    /\ HasThunk(type_map["A"].implementation.gkind)
    /\ HasThunk(type_map["B"].implementation.gkind)

NotNoneType(x) == x # NoneType

NeitherNoneNorUnset(x) == x # NoneType /\ x # UnsetType

\* A union annotation holding the null type was resolved.
OptionalUnionResolved ==
    /\ decl = "annotation"
    /\ type_annotation.annotation.tag = "Union"
    /\ \E i \in DOMAIN type_annotation.annotation.args :
          type_annotation.annotation.args[i] = NoneType
    /\ resolved # NoValue

\* C8 as stated: resolving a union annotation that contains the null type yields
\* Optional wrapping the resolution of the union of exactly the remaining
\* non-null members (one remaining member X gives Optional(X)).
C8_OptionalOfNonNullMembers ==
    OptionalUnionResolved =>
        resolved = StrawberryOptional(
            resolve(PyUnion(SelectSeq(type_annotation.annotation.args, NotNoneType)),
                    namespace))

\* C8 amended: resolving a union annotation that contains the null type yields
\* Optional wrapping the resolution of the union of exactly the members that
\* are neither the null type nor the type of the UNSET sentinel; one such member
\* X gives Optional(X), never Optional of a one-member union; when no such
\* member remains the resolution raises TypeError.
C8_OptionalOfRemainingMembers ==
    OptionalUnionResolved =>
        LET rest == SelectSeq(type_annotation.annotation.args, NeitherNoneNorUnset) IN
        /\ rest = <<>> => resolved = Raise("TypeError")
        /\ Len(rest) = 1 => resolved = StrawberryOptional(resolve(rest[1], namespace))
        /\ Len(rest) > 1 =>
              resolved = StrawberryOptional(resolve(Mk("Union", "", rest, <<>>), namespace))

\* Union[A, UnsetType, None] (in some order) was resolved to Optional(A).
C8_Witness ==
    /\ OptionalUnionResolved
    /\ \E i \in DOMAIN type_annotation.annotation.args :
          type_annotation.annotation.args[i] = UnsetType
    /\ resolved.tag = "StrawberryOptional"
    /\ resolved.args[1].tag # "StrawberryUnion"

\* C9: resolve is idempotent on resolved nodes: for every node r obtained from
\* resolve, resolving an annotation that wraps r returns a value equal to r.
C9_ResolveIdempotent ==
    (decl = "annotation" /\ again # NoValue) => NodeEq(again, resolved)

\* An annotated wrapper with a list inside was resolved again.
C9_Witness ==
    /\ decl = "annotation"
    /\ again # NoValue
    /\ resolved.tag = "StrawberryAnnotated"
    /\ resolved.args[1].tag = "StrawberryList"

\* The field is annotated with the textual forward reference "T" and takes its
\* type from that annotation.
ForwardReferenceField ==
    /\ decl = "field"
    /\ type_annotation = [wrapped |-> TRUE, annotation |-> Atom("str", "T")]
    /\ \/ base_resolver_type \in {NoResolver, PyNone}
       \/ base_resolver_type.tag = "StrawberryTypeVar"

\* C10: for a field annotated with a textual forward reference to T, reading
\* field.type while T is absent from the namespace yields UNRESOLVED without
\* raising; once T is defined, reading it yields a result equal to the one
\* obtained when the annotation is T itself, whatever earlier reads returned.
C10_ForwardReferenceResolved ==
    (ForwardReferenceField /\ read # NoValue) =>
        IF readNs["T"] = Undefined THEN read = UNRESOLVED
        ELSE NodeEq(read, resolve(readNs["T"], readNs))

\* The field's type was read as UNRESOLVED, T was defined, and the next read
\* gave the resolved type.
C10_Witness ==
    /\ ForwardReferenceField
    /\ sawUnresolved
    /\ readNs["T"] # Undefined
    /\ read = resolve(readNs["T"], readNs)
    /\ read.tag = "StrawberryOptional"

(***************************************************************************)
(* Claims about the enum wire behaviour                                     *)
(***************************************************************************)
\* C12: for every member m of a registered enum, serialize(m) is m's declared
\* name (not its value), parse_value and parse_literal of that name return m
\* again, and parsing an identifier that is not a declared member name raises
\* a per-request error (GraphQLError) and returns no member.
C12_EnumWireRoundTrip ==
    /\ (fn = "serialize" /\ WireKind(fnArgs.value) = "member") =>
          fnResult = StrVal(WireName(fnArgs.value))
    /\ (fn \in {"parse_value", "parse_literal"}
            /\ WireKind(fnArgs.value) \in {"str", "EnumValueNode"}) =>
          IF \E m \in fnArgs.enum : MemberName(m) = WireName(fnArgs.value)
          THEN fnResult = MemberVal(CHOOSE m \in fnArgs.enum :
                                       MemberName(m) = WireName(fnArgs.value))
          ELSE fnResult = GraphQLError
    /\ fn \in {"parse_value_of_serialized", "parse_literal_of_serialized"} =>
          fnResult = fnArgs.value

\* A member whose value is spelled like the name of another member of the enum
\* was serialized and parsed back.
C12_Witness ==
    /\ fn = "parse_literal_of_serialized"
    /\ fnResult = fnArgs.value
    /\ \E m \in fnArgs.enum :
          MemberName(m) = WireValue(fnArgs.value) /\ MemberName(m) # WireName(fnArgs.value)

(***************************************************************************)
(* Claims about nullability                                                 *)
(***************************************************************************)
\* The type under its metadata wrappers.
Stripped(t) == IF t.tag = "StrawberryAnnotated" THEN GetTypeAndArgs(t)[1] ELSE t

IsOptionalOrNone(t) == Stripped(t).tag = "StrawberryOptional" \/ Stripped(t) = NoneType

RECURSIVE NullabilityAgrees(_, _)
\* node is nullable exactly when t is Optional or the null type, and so are
\* the elements of every list inside, level by level.
NullabilityAgrees(t, node) ==
    LET s == Stripped(t)
        inner == IF s.tag = "StrawberryOptional" THEN Stripped(s.args[1]) ELSE s
        named == IF IsOptionalOrNone(t) THEN node
                 ELSE IF node.tag = "GraphQLNonNull" THEN node.args[1] ELSE NoneType
    IN  /\ IsOptionalOrNone(t) <=> node.tag # "GraphQLNonNull"
        /\ IF inner.tag = "StrawberryList"
           THEN named.tag = "GraphQLList" /\ NullabilityAgrees(inner.args[1], named.args[1])
           ELSE named.tag = "GraphQLNamedType"

RECURSIVE Unconvertible(_, _)
\* The types no node exists for: an Optional directly inside an Optional, and
\* the null type when the scalar registry has no entry for it.
Unconvertible(t, none_is_scalar) ==
    LET s == Stripped(t)
        inner == IF s.tag = "StrawberryOptional" THEN Stripped(s.args[1]) ELSE s
    IN  IF inner.tag = "StrawberryOptional" THEN TRUE
        ELSE IF inner = NoneType THEN ~none_is_scalar
        ELSE IF inner.tag = "StrawberryList" THEN Unconvertible(inner.args[1], none_is_scalar)
        ELSE FALSE

\* C13: from_maybe_optional maps a resolved type to a nullable node if and
\* only if, after stripping metadata wrappers, it is Optional or the null
\* type; every other type is wrapped non-null, and the rule applies to list
\* elements at every level.  A type has no node only when it is unconvertible.
C13_NullableIffOptional ==
    fn = "from_maybe_optional" =>
        IF IsRaise(fnResult)
        THEN Unconvertible(fnArgs.type, fnArgs.none_is_scalar)
        ELSE /\ NullabilityAgrees(fnArgs.type, fnResult)
             /\ ~Unconvertible(fnArgs.type, fnArgs.none_is_scalar)

\* List[Annotated[Optional[str], m]] became a non-null list of nullable String.
C13_Witness ==
    /\ fn = "from_maybe_optional"
    /\ fnArgs.type =
         StrawberryList(StrawberryAnnotated(StrawberryOptional(Atom("class", "str")), <<"m">>))
    /\ fnResult = GraphQLNonNull(GraphQLList(GraphQLNamedType("String")))

(***************************************************************************)
(* Claims about argument conversion                                         *)
(***************************************************************************)
\* None stays None and the unset sentinel stays the sentinel.
SentinelsKept(v, r) == (v = ValNone => r = ValNone) /\ (v = ValUnset => r = ValUnset)

\* The instance built from mapping v: an absent field has its declared
\* default, a present one keeps None and the sentinel apart.
InputFieldsKept(v, r) ==
    /\ r.kind = "instance"
    /\ \A k \in DOMAIN InputFields :
          IF Present(v, InputFields[k].graphql_name)
          THEN LET x == Lookup(v, InputFields[k].graphql_name)
               IN  SentinelsKept(x, r.items[k]) /\ (x.kind = "scalar" => r.items[k] = x)
          ELSE r.items[k] = InputFields[k].default

\* A value of a type that has no conversion.
Unconverted(v, type_) ==
    /\ v \notin {ValNone, ValUnset}
    /\ type_.tag \in {"objectclass", "TypeVar"}

\* C14: an argument or input-object field whose public name is absent from the
\* request is not passed at all (its declared default reaches application
\* code), None is passed as None and the unset sentinel as the sentinel, for
\* every declared type.
C14_OmissionIsNotNull ==
    fn = "convert_arguments" =>
        IF IsValRaise(fnResult)
        THEN \E i \in DOMAIN fnArgs.arguments :
                /\ Present(fnArgs.value, fnArgs.arguments[i].graphql_name)
                /\ Unconverted(Lookup(fnArgs.value, fnArgs.arguments[i].graphql_name),
                               fnArgs.arguments[i].type)
        ELSE \A i \in DOMAIN fnArgs.arguments :
                LET a == fnArgs.arguments[i] IN
                IF ~Present(fnArgs.value, a.graphql_name)
                THEN ~Present(fnResult, a.python_name)
                ELSE /\ Present(fnResult, a.python_name)
                     /\ LET v == Lookup(fnArgs.value, a.graphql_name)
                            r == Lookup(fnResult, a.python_name)
                        IN  /\ SentinelsKept(v, r)
                            /\ v.kind = "mapping" => InputFieldsKept(v, r)
                            /\ v.kind = "list" =>
                                  /\ r.kind = "list" /\ Len(r.items) = Len(v.items)
                                  /\ \A j \in DOMAIN v.items : SentinelsKept(v.items[j], r.items[j])

\* An input object came without myA and with b: null, and the second argument
\* was omitted: the instance has the default of my_a and None for b, and no
\* keyword argument was made for the second.
C14_Witness ==
    /\ fn = "convert_arguments"
    /\ Len(fnArgs.arguments) = 2
    /\ fnArgs.value = ValMapping(<<"firstArg">>, <<ValMapping(<<"b">>, <<ValNone>>)>>)
    /\ fnResult = Val("kwargs",
                      <<Val("instance", <<ValUnset, ValNone>>, <<"my_a", "b">>)>>,
                      <<"first_arg">>)

(***************************************************************************)
(* Claims about the argument metadata override                              *)
(***************************************************************************)
\* The override blocks in the metadata of the argument's annotation.
BlocksOf(annotation) == SelectSeq(GetTypeAndArgs(annotation)[2], IsBlock)

\* The five overridable attributes of an argument.
Overridable(self) ==
    <<self.graphql_name, self.description, self.description_sources,
      self.deprecation_reason, self.directives>>

\* A lazy reference on something that is no forward reference stops the
\* construction with an assertion, whatever follows it.
LazyOnPlainType(annotation) ==
    /\ GetTypeAndArgs(annotation)[1].tag # "str"
    /\ \E i \in DOMAIN GetTypeAndArgs(annotation)[2] : GetTypeAndArgs(annotation)[2][i] = LazyMarker

LacksType(field_) ==
    IF field_.kind = "other" \/ field_.annotation # "none" THEN "none"
    ELSE IF field_.kind = "StrawberryField" /\ field_.resolver = "unannotated"
    THEN "MissingReturnAnnotationError"
    ELSE IF field_.resolver = "none" THEN "MissingFieldAnnotationError"
    ELSE "none"

\* C16: declaring a type fails before the type definition is created whenever
\* a field lacks a type: a field with a resolver and no class-level annotation
\* whose resolver has no return annotation raises MissingReturnAnnotationError,
\* a field with no resolver and no class-level annotation raises
\* MissingFieldAnnotationError (the first such field decides); otherwise every
\* field ends with a class-level annotation, and an annotation already present
\* is never overwritten by the resolver's.
C16_FieldsAnnotatedOrRejected ==
    fn = "wrap" =>
        LET lacking == {i \in DOMAIN fnArgs : LacksType(fnArgs[i]) # "none"} IN
        /\ lacking # {} =>
              LET first == CHOOSE i \in lacking : \A j \in lacking : i <= j IN
              /\ fnResult.err = LacksType(fnArgs[first])
              /\ fnResult.field_name = first
              /\ ~fnResult.defined
        /\ lacking = {} =>
              /\ fnResult.err = "none"
              /\ fnResult.defined
              /\ \A i \in DOMAIN fnArgs :
                    fnArgs[i].kind # "other" => fnResult.annotations[i] # "none"
        /\ \A i \in DOMAIN fnArgs :
              fnArgs[i].annotation # "none" => fnResult.annotations[i] = fnArgs[i].annotation

\* A class with a field annotated int whose resolver returns str, and a field
\* that has only its resolver's return annotation, was declared.
C16_Witness ==
    /\ fn = "wrap"
    /\ fnArgs = <<[kind |-> "StrawberryField", annotation |-> "int", resolver |-> "str"],
                  [kind |-> "StrawberryField", annotation |-> "none", resolver |-> "str"]>>
    /\ fnResult = Declaration(<<"int", "str">>, "none", 0, TRUE)

(***************************************************************************)
(* Claims about attaching a resolver                                        *)
(***************************************************************************)
\* C17: attaching a resolver to a field fails with InvalidFieldArgument for
\* every resolver argument whose type is a union or an interface type, and on
\* that failure the field is left without the resolver attached (base_resolver
\* and the init/repr/compare flags unchanged).
C17_UnionOrInterfaceArgumentRejected ==
    fn = "StrawberryField.__call__" =>
        /\ (\E i \in DOMAIN fnArgs.resolver :
                fnArgs.resolver[i].type \in {"StrawberryUnion", "interface"}) =>
              fnResult.err = "InvalidFieldArgument"
        /\ fnResult.err # "none" => fnResult.field = fnArgs.field

(***************************************************************************)
(* Claims about the permission classes of a field                           *)
(***************************************************************************)
\* The permission classes in the metadata of the type.
MetadataPermissions(type_) ==
    {GetTypeAndArgs(type_)[2][i] : i \in DOMAIN GetTypeAndArgs(type_)[2]} \cap PermKinds

\* C18: a field's effective permission list contains exactly the permission
\* classes found in the metadata of its resolved type together with the
\* explicitly declared ones; a field that has permissions only through type
\* metadata and has no resolver is not a basic field, and its permission
\* checks run before the attribute is read.
C18_MetadataPermissionsEnforced ==
    fn = "from_resolver" =>
        /\ {fnResult.perms[i] : i \in DOMAIN fnResult.perms} =
              MetadataPermissions(fnArgs.type)
                 \cup {fnArgs.explicit_permission_classes[i] :
                         i \in DOMAIN fnArgs.explicit_permission_classes}
        /\ (/\ MetadataPermissions(fnArgs.type) # {}
            /\ fnArgs.explicit_permission_classes = <<>>
            /\ fnArgs.resolver = "none") =>
              /\ ~IsBasicField(fnResult)
              /\ (frame.pc # "idle" /\ frame.field = fnResult) =>
                    /\ frame.wrapper # "basic"
                    /\ frame.getterCalled =>
                          /\ frame.permChecks = Len(fnResult.perms)
                          /\ frame.falseAt = 0

\* A field without resolver whose type carries two permission classes in its
\* metadata was read after both had been asked.
C18_Witness ==
    /\ fn = "from_resolver"
    /\ fnArgs.resolver = "none"
    /\ fnArgs.explicit_permission_classes = <<>>
    /\ fnArgs.type = StrawberryAnnotated(Atom("class", "str"), <<"sync", "m", "deferred">>)
    /\ frame.field = fnResult
    /\ frame.getterCalled
    /\ frame.permChecks = 2

(***************************************************************************)
(* Claims about parse_annotated                                             *)
(***************************************************************************)
RECURSIVE NoLazyMarker(_)
\* No metadata list inside the annotation holds a lazy-reference marker.
NoLazyMarker(annotation) ==
    /\ \A i \in DOMAIN annotation.meta : annotation.meta[i] # LazyMarker
    /\ \A i \in DOMAIN annotation.args : NoLazyMarker(annotation.args[i])

\* C19: for every annotation composed of plain types, Optional, List, Union
\* and Annotated whose metadata holds no lazy-reference marker, nested to any
\* depth, parse_annotated returns an annotation equal to its input, metadata
\* kept in the same position and order; applying it twice gives the same
\* result as applying it once.
C19_ParseAnnotatedIdentity ==
    (fn \in {"parse_annotated", "parse_annotated twice"} /\ NoLazyMarker(fnArgs)) =>
        fnResult = fnArgs

\* parse_annotated was applied twice to Optional[Annotated[str, m, n]].
C19_Witness ==
    /\ fn = "parse_annotated twice"
    /\ fnArgs = Mk("Union", "",
                   <<Mk("Annotated", "", <<Atom("class", "str")>>, <<"m", "n">>),
                     NoneType>>, <<>>)
    /\ fnResult = fnArgs

(***************************************************************************)
(* Claims about the type_map as a cache                                     *)
(***************************************************************************)
\* C20: after any sequence of from_scalar, from_enum, from_object,
\* from_input_object, from_interface and from_union calls on one converter,
\* type_map holds at most one entry per emitted name, an entry once inserted
\* is never replaced or removed (neither between two calls nor within one: the
\* entry made for a definition when its node was built is still the entry of
\* its name), and so a request for a registered definition gets the node built
\* on the first request.
C20_TypeMapEntriesStable ==
    /\ [][\A name \in TypeNames :
             type_map[name] # NoEntry => type_map'[name] = type_map[name]]_vars
    /\ [](\A d \in Defs :
             built[d] > 0 =>
                /\ type_map[d.name].definition = d
                /\ type_map[d.name].implementation.of = d)

(***************************************************************************)
(* Claims about request-time resolution                                     *)
(***************************************************************************)
\* C21: a call of a wrapper returned by from_resolver (basic, synchronous or
\* asynchronous), however it ends and however many calls came before, leaves
\* the converter's type_map and the field's resolver, permission lists (the
\* explicit one and the one permission_classes keeps) and type annotation as
\* they were.
C21_InvocationLeavesSchemaAndField ==
    [][(fn' = "wrapper" /\ fnResult'.calls = fnResult.calls + 1) =>
          /\ type_map' = type_map
          /\ fnArgs'.resolver = fnArgs.resolver
          /\ fnArgs'.type = fnArgs.type
          /\ fnArgs'.explicit_permission_classes = fnArgs.explicit_permission_classes
          /\ fnArgs'.cached_permission_classes = fnArgs.cached_permission_classes
          /\ permission_classes(fnArgs') = permission_classes(fnArgs)]_vars

\* The asynchronous wrapper of a field with a resolver was called a second
\* time, with types registered in the type_map, and raised PermissionError.
C21_Witness ==
    /\ fn = "wrapper"
    /\ fnResult.wrapper = "async"
    /\ fnResult.calls = 2
    /\ fnResult.outcome = "PermissionError"
    /\ fnArgs.resolver # "none"
    /\ type_map["A"] # NoEntry

(***************************************************************************)
(* Claims about the interfaces of a declared class                          *)
(***************************************************************************)
\* C22: the interface list collected for a declared class holds each interface
\* definition reachable through its base classes exactly once, also when an
\* interface is reachable along several inheritance paths, and nothing else.
C22_InterfacesListedOnce ==
    fn = "_process_type" =>
       LET cls == fnArgs[Len(fnArgs)]
           reachable == {c \in Ancestors(fnArgs, cls.bases) : fnArgs[c].kind = "interface"}
       IN  \A c \in DOMAIN fnArgs :
              Cardinality({i \in DOMAIN fnResult : fnResult[i] = c})
                 = IF c \in reachable THEN 1 ELSE 0

(***************************************************************************)
(* Claims about the decorators type, input and interface                    *)
(***************************************************************************)
\* C23: no TypeDefinition created through the decorators type, input and
\* interface has both is_input and is_interface set, whatever flags the caller
\* passes.
C23_InputAndInterfaceExclusive ==
    (fn \in {"type", "input", "interface"} /\ fnResult.defined) =>
       ~(fnResult.is_input /\ fnResult.is_interface)

(***************************************************************************)
(* Claims about the life of a field                                         *)
(***************************************************************************)
\* C24: after every operation on a field its init, repr and compare flags are
\* all true exactly when no resolver is attached and all false once one is
\* attached (by the constructor, by calling the field as a decorator or by
\* the base_resolver setter), and on one field they never turn true again.
C24_FlagsFollowResolver ==
    /\ [](fn \in LifeOperations =>
             /\ fnResult.init = ~fnResult.has_resolver
             /\ fnResult.repr = ~fnResult.has_resolver
             /\ fnResult.compare = ~fnResult.has_resolver)
    /\ [][(fn \in LifeOperations /\ fn' # "StrawberryField") =>
             /\ ~fnResult.init => ~fnResult'.init
             /\ ~fnResult.repr => ~fnResult'.repr
             /\ ~fnResult.compare => ~fnResult'.compare]_vars

\* A field built without a resolver, whose first decorator call was refused,
\* got its resolver through the setter.
C24_Witness ==
    /\ fn = "base_resolver.setter"
    /\ fnArgs.before = NewStrawberryField
    /\ fnResult.has_resolver
    /\ ~fnResult.init /\ ~fnResult.repr /\ ~fnResult.compare
    /\ fnArgs.base_resolver.resolver # <<>>

(***************************************************************************)
(* Claims about the argument binding                                        *)
(***************************************************************************)
\* The keys of the keyword arguments that hold the given value.
KeysHolding(kwargs, v) == {kwargs.names[i] : i \in {j \in DOMAIN kwargs.names : kwargs.items[j] = v}}

\* C25: a resolver is called with the source as its only positional argument
\* exactly when it declares self, with the source under the root parameter's
\* name exactly when it declares root, with Info under the info parameter's
\* name exactly when it declares info; the other keywords are the declared
\* arguments present in the request, each once under its python name with the
\* value of the request, and no other key of the request is passed.
C25_ArgumentsBoundBySignature ==
    fn = "_get_arguments" =>
       LET r == fnArgs.base_resolver
           kw == fnResult.kwargs
           special == {r.root_parameter, r.info_parameter} \ {"none"}
           others == {i \in DOMAIN kw.names : kw.names[i] \notin special}
           present == {i \in DOMAIN r.arguments : Present(fnArgs.kwargs, r.arguments[i].graphql_name)}
       IN  /\ fnResult.args = IF r.self_parameter THEN <<SourceVal(fnArgs.source)>> ELSE <<>>
           /\ KeysHolding(kw, SourceVal(fnArgs.source)) = {r.root_parameter} \ {"none"}
           /\ KeysHolding(kw, InfoVal) = {r.info_parameter} \ {"none"}
           /\ \A i, j \in DOMAIN kw.names : kw.names[i] = kw.names[j] => i = j
           /\ {kw.names[i] : i \in others} = {r.arguments[i].python_name : i \in present}
           /\ \A i \in present :
                 Lookup(kw, r.arguments[i].python_name)
                    = Lookup(fnArgs.kwargs, r.arguments[i].graphql_name)

\* A resolver with self, root and info parameters and two declared arguments
\* was called with one declared argument, one null argument and a key that no
\* argument declares.
C25_Witness ==
    /\ fn = "_get_arguments"
    /\ fnArgs.base_resolver.self_parameter
    /\ fnArgs.base_resolver.root_parameter = "root"
    /\ fnArgs.base_resolver.info_parameter = "ctx"
    /\ Len(fnArgs.base_resolver.arguments) = 2
    /\ fnArgs.kwargs.names = <<"firstArg", "second", "other">>
    /\ fnResult.kwargs.names = <<"first_arg", "second", "root", "ctx">>
    /\ Len(fnResult.args) = 1

(***************************************************************************)
(* Claims about the description resolution                                  *)
(***************************************************************************)
\* The setting in force for the field: its own when given, else the parent's.
EffectiveSetting ==
    IF fnArgs.field.description_sources # NoSetting THEN fnArgs.field.description_sources
    ELSE fnArgs.description_sources

\* What a source yields for the field.
CandidateOf(flag) ==
    IF flag = "STRAWBERRY_DESCRIPTIONS" THEN fnArgs.field.description
    ELSE IF flag = "RESOLVER_DOCSTRINGS" THEN fnArgs.field.resolver_docstring.main_description
    ELSE IF flag = "TYPE_ATTRIBUTE_DOCSTRINGS"
    THEN fnArgs.parent_type_docstring.attribute_docstring
    ELSE fnArgs.parent_type_docstring.child_description

\* The first description the sources yield when they are asked in the given
\* order.
FirstIn(order) ==
    LET yielding == {i \in DOMAIN order : CandidateOf(order[i]) # NoDescription}
    IN  IF yielding = {} THEN NoDescription
        ELSE CandidateOf(order[CHOOSE i \in yielding : \A j \in yielding : i <= j])

C27_InfoVisibleInResolverBody ==
    (/\ frame.field.resolver # "none"
     /\ frame.resolverCalled
     /\ frame.pc \in {"body", "await"}
     /\ stack # <<>>)
        => GetInfo(current_info) = frame.info

\* C30: get_info() and get_context() return None and never raise while no
\* resolver invocation is in progress: before any field was resolved, and
\* after every resolution completed and restored the context variable.
C30_NoneOutsideResolution ==
    (stack = <<>> /\ frame.pc \in {"idle", "done"})
        => /\ GetInfo(current_info) = NoneInfo
           /\ GetContext(current_info) = <<"None", 0>>

(***************************************************************************)
(* Claims about fields resolved concurrently                                *)
(***************************************************************************)
\* C28: when several fields are resolved concurrently and interleave at the
\* suspension points, no invocation is suspended between the set and the reset
\* of current_info in get_result: an invocation inside get_result is the one
\* that runs, current_info holds no invocation's Info whenever the event loop
\* may pick a task (so also when it resumes an awaited has_permission), and
\* where the running invocation is about to run code of its field
\* (has_permission, a resolver body) get_info() gives it no sibling's Info.
C28_NoSuspensionInsideGetResult ==
    /\ \A t \in InFlight : Tasks[t].pc \in {"call", "reset"} => Running = t
    /\ Running = 0 => current_info \notin InfosInFlight
    /\ \A t \in InFlight :
          (/\ Running = t
           /\ \/ Tasks[t].pc \in {"perm", "body"}
              \/ Tasks[t].pc = "call" /\ Tasks[t].resolver = "sync")
             => GetInfo(current_info) \notin InfosInFlight \ {TaskInfo(t)}

\* Two invocations interleave: one is suspended awaiting its asynchronous
\* resolver, after get_result set and reset current_info, while its sibling is
\* inside get_result with current_info set to its own Info.
C28_Witness ==
    \E t, u \in InFlight :
       /\ t # u
       /\ Tasks[t].pc = "await"
       /\ Tasks[u].pc = "call"
       /\ Tasks[u].resolver = "sync"
       /\ Running = u
       /\ current_info = MkInfo(u)

(***************************************************************************)
(* Claims about StrawberryField.copy_with                                   *)
(***************************************************************************)
\* C29: copy_with(type_var_map) leaves the original field unchanged and
\* returns a new field that differs from it only in its type and its
\* resolver's types: python name, public name, origin, subscription flag,
\* description, description sources, permission classes, default value,
\* deprecation reason, metadata and directives equal those of the original.
\* Stated for the calls that return a field.
C29_CopyDiffersOnlyInTypes ==
    (fn = "copy_with" /\ fnResult[1] = "none") =>
        /\ fnArgs[2] = fnArgs[1]
        /\ LET self == fnArgs[1]
               new == fnResult[2]
           IN /\ new.python_name = self.python_name
              /\ new.graphql_name = self.graphql_name
              /\ new.origin = self.origin
              /\ new.is_subscription = self.is_subscription
              /\ new.description = self.description
              /\ new.description_sources = self.description_sources
              /\ permission_classes(new) = permission_classes(self)
              /\ new.default_value = self.default_value
              /\ new.deprecation_reason = self.deprecation_reason
              /\ new.metadata = self.metadata
              /\ new.directives = self.directives
              /\ (new.base_resolver = "None") = (self.base_resolver = "None")
====
